---- MODULE Spec2Model ----
(***************************************************************************)
(* Model of the local multi-view reconstruction engine of img2mesh3d       *)
(* (src/holo/packages/img2mesh3d/src/local_recon.py).                      *)
(*                                                                         *)
(*   Spec        one call of LocalReconstructor.run, stage by stage        *)
(*   SpecSelect  the pure function LocalReconstructor._select_views        *)
(*   SpecSample  _select_views with recon_images below the view count      *)
(*   SpecAngles  LocalReconstructor._default_angles                        *)
(*   SpecPose    _look_at and the inverse pose of _build_frames            *)
(*   SpecFrame   decoding and masking of one depth map                     *)
(*   SpecBake    LocalReconstructor._bake_texture on one triangle          *)
(*   SpecPoints  the point cloud export of run                             *)
(*   SpecStore   the job stores of jobs/store_dynamodb.py and              *)
(*               jobs/local.py                                             *)
(*   SpecGrid    split_grid of img2mesh3d/utils/images.py                  *)
(*   SpecRebuild _select_views and _build_frames under a configuration     *)
(*               updated by the rebuild endpoint of api/app.py             *)
(*   SpecFace    LocalReconstructor._select_view_for_face                  *)
(*   SpecColour  LocalReconstructor._sample_view_color                     *)
(*   SpecWeights the loop of _bake_texture, face by face                   *)
(*   SpecDecimate the mesh from its extraction to the decimation, in run   *)
(*               and in pipeline_core/local_runners.py                     *)
(*   SpecMesh    _mesh_from_points and the meshing of _run_recon_local     *)
(*   SpecRerun   two calls of run on one reconstructor                     *)
(*                                                                         *)
(* Progress values are kept in hundredths (0.55 is 55).  Optional values   *)
(* are <<>> (None) or <<v>> (the value v).                                 *)
(***************************************************************************)
EXTENDS Integers, Sequences, FiniteSets, TLC

VARIABLES
    pc,               \* position of the call of run / of the selector
    raiseCause,       \* the exception that left run, "" while none
    config,           \* self.config (PipelineConfig)
    total,            \* len(view_paths)
    depth_paths,      \* keys of the depth_paths mapping
    emit,             \* the emit callback: "none" | "ok" | "raises"
    emit_stage,       \* the caller's stage label
    texture_enabled,  \* run's local copy of config.texture_enabled
    texture_backend,  \* run's local, lower-cased backend
    xatlas,           \* TRUE when the xatlas module was imported
    blender_path,     \* TRUE when _resolve_blender_path returned a path
    selected,         \* result of _select_views
    frames,           \* result of _build_frames
    outputs,          \* the ReconOutputs under construction
    files,            \* what run wrote under out_dir
    events,           \* every event passed to emit, in order
    trace,            \* the steps run has executed, in order; the calls
                      \* made on the job store
    args,             \* arguments of the single function under check
    ret,              \* its return value, None before the call
    table,            \* items of the DynamoDB table of JobStoreDynamoDB
    jobs,             \* LocalJobStore._jobs
    job_events        \* LocalJobStore._events

vars == <<pc, raiseCause, config, total, depth_paths, emit, emit_stage,
          texture_enabled, texture_backend, xatlas, blender_path, selected,
          frames, outputs, files, events, trace, args, ret, table, jobs,
          job_events>>

(***************************************************************************)
(* Bounds of the model                                                     *)
(***************************************************************************)
MaxViews == 2
MaxTotal == 4
MaxIdxLen == 2
MaxSampleTotal == 30
MaxCount == 7
MaxCoord == 5
MaxSide == 2
TexBits == 1
MaxPoints == 3
MaxCalls == 3
MaxImage == 4
MaxGrid == 3

(***************************************************************************)
(* Helpers                                                                 *)
(***************************************************************************)
None == <<>>
Some(v) == <<v>>
IsNone(o) == o = <<>>
Val(o) == o[1]

Min(a, b) == IF a < b THEN a ELSE b
Max(a, b) == IF a > b THEN a ELSE b

Range(s) == {s[i] : i \in 1..Len(s)}

RECURSIVE SelectSeq2(_, _)
\* Python list comprehension [x for x in s if Keep[x]], Keep a set
SelectSeq2(s, keep) ==
    IF s = <<>> THEN <<>>
    ELSE IF Head(s) \in keep THEN <<Head(s)>> \o SelectSeq2(Tail(s), keep)
         ELSE SelectSeq2(Tail(s), keep)

SeqsUpTo(S, n) == UNION {[1..k -> S] : k \in 0..n}

(***************************************************************************)
(* PipelineConfig                                                          *)
(***************************************************************************)
Backends == {"auto", "pyxatlas", "blender", "none"}

\* PipelineConfig._validate_view_indices: None, or a non-empty list of
\* non-negative indices; repeated entries are accepted
validate_view_indices(v) ==
    IsNone(v) \/ (Len(Val(v)) > 0 /\ \A i \in 1..Len(Val(v)) : Val(v)[i] >= 0)

(***************************************************************************)
(* _select_views                                                           *)
(***************************************************************************)
RECURSIVE Uniq(_, _)
\* the loop "for idx in indices: if idx not in uniq: uniq.append(idx)"
Uniq(indices, uniq) ==
    IF indices = <<>> THEN uniq
    ELSE IF Head(indices) \in Range(uniq) THEN Uniq(Tail(indices), uniq)
         ELSE Uniq(Tail(indices), Append(uniq, Head(indices)))

\* The triples <<total, recon_images, i>> with total < 45 for which the
\* double-precision product i * (total / recon_images) falls just below the
\* integer that i * total / recon_images is exactly, so that int() of it is
\* one less than the exact quotient (30 / 22 rounds down, 11 times that is
\* 14.999999999999998).
FloatShortfalls == {<<30, 22, 11>>, <<30, 26, 13>>}

\* int(i * step) with step = total / float(max(1, recon_images)), for
\* total < 45
SampleIndex(i, n, k) ==
    IF <<n, k, i>> \in FloatShortfalls
    THEN ((i * n) \div Max(1, k)) - 1
    ELSE (i * n) \div Max(1, k)

select_views(cfg, n) ==
    IF n <= 0 THEN <<>>
    ELSE LET explicit ==
                 IF IsNone(cfg.recon_view_indices) THEN <<>>
                 ELSE SelectSeq(Val(cfg.recon_view_indices),
                                LAMBDA i : i < n)
         IN IF explicit # <<>> THEN explicit
            ELSE IF IsNone(cfg.recon_images) \/ Val(cfg.recon_images) >= n
                 THEN [i \in 1..n |-> i - 1]
                 ELSE LET k == Val(cfg.recon_images)
                          indices == [j \in 1..k |->
                                         Min(n - 1, SampleIndex(j - 1, n, k))]
                      IN Uniq(indices, <<>>)

(***************************************************************************)
(* _build_frames: one frame per selected index that is below total and has *)
(* a depth image; valid is the set of views whose depth buffer keeps a     *)
(* non-zero pixel after alpha masking (read from the files while loading). *)
(* A view is appended whether or not its depth is valid.                   *)
(***************************************************************************)
RECURSIVE build_frames(_, _, _, _)
build_frames(n, depths, indices, valid) ==
    IF indices = <<>> THEN <<>>
    ELSE LET idx == Head(indices)
             rest == build_frames(n, depths, Tail(indices), valid)
         IN IF idx >= n THEN rest
            ELSE IF idx \notin depths THEN rest
            ELSE <<[index |-> idx, nonzero_depth |-> idx \in valid]>> \o rest

(***************************************************************************)
(* run.report: the clamp, the optional log event, the progress event.      *)
(* Each call of emit may raise when the callback is a raising one; the     *)
(* event of a raising call is the last one recorded.  The result is the    *)
(* set of possible outcomes [sent, raised].                                *)
(***************************************************************************)
clamped(progress) == Max(0, Min(100, progress))

LogEvent(stage, message) ==
    [kind |-> "log", stage |-> stage, message |-> message, progress |-> -1]

ProgressEvent(stage, progress) ==
    [kind |-> "progress", stage |-> stage, message |-> "",
     progress |-> clamped(progress)]

\* a report that labels its events with the default stage
report_DefaultStage(progress, message) ==
    IF emit = "none" THEN {[sent |-> <<>>, raised |-> FALSE]}
    ELSE {[sent |-> <<LogEvent("rebuild", message),
                      ProgressEvent("rebuild", progress)>>,
           raised |-> FALSE]}

report(progress, message) ==
    IF emit = "none" THEN {[sent |-> <<>>, raised |-> FALSE]}
    ELSE LET log == IF message # "" THEN <<LogEvent(emit_stage, message)>>
                    ELSE <<>>
             prog == <<ProgressEvent(emit_stage, progress)>>
         IN {[sent |-> log \o prog, raised |-> FALSE]}
            \cup (IF emit = "raises"
                  THEN {[sent |-> log \o prog, raised |-> TRUE]}
                       \cup (IF log # <<>>
                             THEN {[sent |-> log, raised |-> TRUE]}
                             ELSE {})
                  ELSE {})

\* the control transfer after a report made outside any try block: run has
\* no handler around report, so an exception of emit leaves run
AfterReport(r, next) ==
    /\ events' = events \o r.sent
    /\ IF r.raised
       THEN pc' = "raised" /\ raiseCause' = "emit"
       ELSE pc' = next /\ raiseCause' = raiseCause

NoOutputs == [mesh_path |-> "", texture_path |-> "", point_cloud_path |-> ""]
NoFiles == [glb |-> "", albedo |-> FALSE, points |-> FALSE]

(***************************************************************************)
(* The exception handlers of run                                           *)
(***************************************************************************)
\* "except Exception" around "import xatlas": xatlas stays None
XatlasImportExcept == [caught |-> TRUE]

\* an except clause of the xatlas bake that leaves texturing enabled
XatlasBakeExcept_StaysEnabled ==
    [caught |-> TRUE, texture_enabled |-> TRUE, texture_backend |-> "blender"]

\* "except Exception" around the xatlas bake
XatlasBakeExcept ==
    [caught |-> TRUE, texture_enabled |-> FALSE, texture_backend |-> "blender"]

\* a Blender bake whose exception is not caught
BlenderBakeExcept_Uncaught == [caught |-> FALSE, texture_enabled |-> FALSE]

\* "except Exception" around the Blender bake
BlenderBakeExcept == [caught |-> TRUE, texture_enabled |-> FALSE]

\* (self.config.texture_backend or "auto").lower()
lower_backend(b) ==
    IF b = "" THEN "auto"
    ELSE IF b = "Blender" THEN "blender"
    ELSE b

\* the configured backend strings of the model: the four documented values
\* and one that only lower() maps to a documented one
ConfigBackends == Backends \cup {"Blender"}

(***************************************************************************)
(* Inputs of one call of run                                               *)
(***************************************************************************)
\* an explicit list naming the last view of a full input (filtered to empty,
\* hence ignored, when fewer views are given), or none; a sampling budget
\* of one view, or none
RunViewIndices == {None, Some(<<MaxViews - 1>>)}
RunImages == {None, Some(1)}

RunConfigs ==
    [texture_enabled : BOOLEAN,
     texture_backend : ConfigBackends,
     recon_fusion : {"points", "tsdf"},
     recon_method : {"poisson"},
     recon_target_tris : {0, 2000},
     points_enabled : BOOLEAN,
     points_voxel_size : {0},
     points_max_points : {0},
     recon_view_indices : RunViewIndices,
     recon_images : RunImages]

Init ==
    /\ pc = "start"
    /\ raiseCause = ""
    /\ config \in RunConfigs
    /\ total \in 0..MaxViews
    /\ depth_paths \in SUBSET (0..(total - 1))
    /\ emit \in {"none", "ok", "raises"}
    /\ emit_stage \in {"rebuild", "recon"}
    /\ (emit # "ok" => emit_stage = "rebuild")
    /\ texture_enabled = FALSE
    /\ texture_backend = ""
    /\ xatlas = FALSE
    /\ blender_path = FALSE
    /\ selected = <<>>
    /\ frames = <<>>
    /\ outputs = NoOutputs
    /\ files = NoFiles
    /\ events = <<>>
    /\ trace = <<>>
    /\ args = [pcd |-> <<1>>]   \* the point cloud the fusion yields
    /\ ret = None
    /\ table = {}
    /\ jobs = <<>>
    /\ job_events = <<>>

inputs == <<config, total, depth_paths, emit, emit_stage>>
locals == <<texture_enabled, texture_backend, xatlas, blender_path>>
\* state that run never touches: the call frame of the single functions and
\* the job stores
others == <<args, ret, table, jobs, job_events>>

(***************************************************************************)
(* run, lines 76-98: the first report, the imports, the backend set-up     *)
(***************************************************************************)
Start ==
    /\ pc = "start"
    /\ \E r \in report(0, "Rebuild started") : AfterReport(r, "setup")
    /\ trace' = Append(trace, "start")
    /\ UNCHANGED <<inputs, others, locals, selected, frames, outputs, files>>

Setup ==
    /\ pc = "setup"
    /\ \E importable \in BOOLEAN, resolved \in BOOLEAN :
         LET backend == lower_backend(config.texture_backend)
             wants == config.texture_enabled /\ backend \in {"auto", "pyxatlas"}
         IN /\ (~wants => ~importable)
            /\ IF wants /\ ~importable /\ ~XatlasImportExcept.caught
               THEN /\ pc' = "raised"
                    /\ raiseCause' = "xatlas_import"
               ELSE /\ pc' = "build_frames"
                    /\ raiseCause' = raiseCause
            /\ xatlas' = (wants /\ importable)
            /\ blender_path' = resolved
            /\ texture_backend' = backend
            /\ texture_enabled' =
                   IF config.texture_enabled /\ backend = "blender" /\ ~resolved
                   THEN FALSE
                   ELSE config.texture_enabled
            /\ trace' = trace
                   \o (IF wants /\ ~importable THEN <<"xatlas_missing">> ELSE <<>>)
                   \o (IF ~resolved THEN <<"blender_unresolved">> ELSE <<>>)
    /\ UNCHANGED <<inputs, others, selected, frames, outputs, files, events>>

(***************************************************************************)
(* run, lines 100-128: view selection, frames, the no-views error          *)
(***************************************************************************)
BuildFrames ==
    /\ pc = "build_frames"
    /\ LET sel == select_views(config, total)
       IN \E valid \in SUBSET (Range(sel) \cap depth_paths) :
            LET fr == build_frames(total, depth_paths, sel, valid)
            IN /\ selected' = sel
               /\ frames' = fr
               /\ IF fr = <<>>
                  THEN /\ pc' = "raised"
                       /\ raiseCause' = "no_valid_views"
                       /\ events' = events
                  ELSE \E r \in report(20, "Prepared views") :
                           AfterReport(r, "fuse")
    /\ trace' = Append(trace, "build_frames")
    /\ UNCHANGED <<inputs, others, locals, outputs, files>>

(***************************************************************************)
(* run, lines 130-149: fusion, meshing, cleanup, decimation.  The calls    *)
(* into the geometry library may raise; nothing in run catches that.       *)
(***************************************************************************)
FuseStart ==
    /\ pc = "fuse"
    /\ \E r \in report(30, IF config.recon_fusion = "tsdf"
                           THEN "Fusing TSDF" ELSE "Fusing points") :
           AfterReport(r, "fusing")
    /\ trace' = Append(trace, "fuse_start")
    /\ UNCHANGED <<inputs, others, locals, selected, frames, outputs, files>>

Fuse ==
    /\ pc = "fusing"
    /\ \E ok \in BOOLEAN :
         IF ~ok
         THEN /\ pc' = "raised"
              /\ raiseCause' = "fusion"
              /\ events' = events
              /\ trace' = Append(trace, "fuse_failed")
         ELSE IF config.recon_fusion = "tsdf"
         THEN /\ \E r \in report(65, "TSDF fusion complete") :
                    AfterReport(r, "cleanup")
              /\ trace' = Append(trace, "fuse_tsdf")
         ELSE /\ \E r \in report(55, "Point fusion complete") :
                    AfterReport(r, "meshing")
              /\ trace' = Append(trace, "fuse_points")
    /\ UNCHANGED <<inputs, others, locals, selected, frames, outputs, files>>

MeshFromPoints ==
    /\ pc = "meshing"
    /\ \E ok \in BOOLEAN :
         IF ~ok
         THEN /\ pc' = "raised"
              /\ raiseCause' = "fusion"
              /\ events' = events
              /\ trace' = Append(trace, "mesh_failed")
         ELSE /\ \E r \in report(70, "Meshing complete") :
                    AfterReport(r, "cleanup")
              /\ trace' = Append(trace, "mesh_from_points")
    /\ UNCHANGED <<inputs, others, locals, selected, frames, outputs, files>>

CleanupMesh ==
    /\ pc = "cleanup"
    /\ \E r \in report(80, "Mesh cleanup complete") : AfterReport(r, "decimate")
    /\ trace' = Append(trace, "cleanup_mesh")
    /\ UNCHANGED <<inputs, others, locals, selected, frames, outputs, files>>

Decimate ==
    /\ pc = "decimate"
    /\ IF config.recon_target_tris > 0
       THEN /\ \E r \in report(85, "Mesh simplified") : AfterReport(r, "points")
            /\ trace' = Append(trace, "simplify_quadric_decimation")
       ELSE /\ pc' = "points"
            /\ raiseCause' = raiseCause
            /\ events' = events
            /\ trace' = trace
    /\ outputs' = NoOutputs
    /\ UNCHANGED <<inputs, others, locals, selected, frames, files>>

(***************************************************************************)
(* _limit_points.  A cloud is the sequence of its points, each point a     *)
(* number; the points 101, 102, ... are the voxel averages that            *)
(* voxel_down_sample puts in place of the points of a cloud.               *)
(***************************************************************************)
\* np.random.choice(n, size=size, replace=True)
random_choice_Replace(n, size) == [1..size -> 0..(n - 1)]

\* np.random.choice(n, size=size, replace=False): the lists of size
\* different indices below n
random_choice(n, size) ==
    {idx \in [1..size -> 0..(n - 1)] :
        \A i, j \in 1..size : i # j => idx[i] # idx[j]}

\* pcd.voxel_down_sample(voxel_size): one point per occupied voxel
voxel_down_sample(pcd) ==
    IF pcd = <<>> THEN {<<>>}
    ELSE {[j \in 1..m |-> 100 + j] : m \in 1..Len(pcd)}

\* the possible results: the cloud handed to the sampler and the cloud
\* returned
limit_points(pcd, cfg) ==
    LET clouds == IF cfg.points_voxel_size > 0 THEN voxel_down_sample(pcd)
                  ELSE {pcd}
        max_points == cfg.points_max_points
    IN UNION {IF max_points # 0 /\ Len(c) > max_points
              THEN {[pcd |-> c, saved |-> [j \in 1..max_points |-> c[idx[j] + 1]]] :
                       idx \in random_choice(Len(c), max_points)}
              ELSE {[pcd |-> c, saved |-> c]} : c \in clouds}

(***************************************************************************)
(* run, lines 153-158: the point-cloud export; ret is what was written to  *)
(* points.ply                                                              *)
(***************************************************************************)
ExportPoints ==
    /\ pc = "points"
    /\ IF config.points_enabled
       THEN /\ \E pcd_to_save \in limit_points(args.pcd, config) :
                   ret' = Some(pcd_to_save)
            /\ files' = [files EXCEPT !.points = TRUE]
            /\ outputs' = [outputs EXCEPT !.point_cloud_path = "points.ply"]
            /\ \E r \in report(90, "Point cloud exported") :
                   AfterReport(r, "xatlas_bake")
            /\ trace' = Append(trace, "write_point_cloud")
       ELSE /\ pc' = "xatlas_bake"
            /\ UNCHANGED <<files, outputs, events, raiseCause, trace, ret>>
    /\ UNCHANGED <<inputs, args, table, jobs, job_events, locals, selected,
                   frames>>

(***************************************************************************)
(* run, lines 164-185: the xatlas bake.  It can fail in _unwrap_and_bake,  *)
(* in texture.save, or in the GLB export that follows the assignment of    *)
(* outputs.texture_path; report(0.95) is inside the try block as well.     *)
(***************************************************************************)
XatlasFailures == {"unwrap_failed", "save_failed", "export_failed"}

\* outputs and files after the statements of the try block that ran
XatlasOutputs(outcome) ==
    IF outcome \in {"unwrap_failed", "save_failed"} THEN outputs
    ELSE IF outcome = "export_failed"
    THEN [outputs EXCEPT !.texture_path = "albedo.png"]
    ELSE [outputs EXCEPT !.texture_path = "albedo.png", !.mesh_path = "model.glb"]

XatlasFiles(outcome) ==
    IF outcome \in {"unwrap_failed", "save_failed"} THEN files
    ELSE IF outcome = "export_failed" THEN [files EXCEPT !.albedo = TRUE]
    ELSE [files EXCEPT !.albedo = TRUE, !.glb = "textured_xatlas"]

\* the except clause of a texture bake, or the propagation when there is none
BakeExcept(h, cause, next) ==
    IF h.caught
    THEN pc' = next /\ raiseCause' = raiseCause
    ELSE pc' = "raised" /\ raiseCause' = cause

XatlasBake ==
    /\ pc = "xatlas_bake"
    /\ IF texture_enabled /\ xatlas /\ texture_backend \in {"auto", "pyxatlas"}
       THEN \/ \E outcome \in XatlasFailures :
                 /\ outputs' = XatlasOutputs(outcome)
                 /\ files' = XatlasFiles(outcome)
                 /\ events' = events
                 /\ trace' = trace \o <<"xatlas_bake", outcome>>
                 /\ texture_enabled' = XatlasBakeExcept.texture_enabled
                 /\ texture_backend' = XatlasBakeExcept.texture_backend
                 /\ BakeExcept(XatlasBakeExcept, "xatlas_bake", "blender_bake")
            \/ \E r \in report(95, "Texture baked") :
                 /\ outputs' = XatlasOutputs("ok")
                 /\ files' = XatlasFiles("ok")
                 /\ events' = events \o r.sent
                 /\ trace' = trace \o <<"xatlas_bake", "xatlas_baked">>
                 /\ IF r.raised
                    THEN /\ texture_enabled' = XatlasBakeExcept.texture_enabled
                         /\ texture_backend' = XatlasBakeExcept.texture_backend
                         /\ BakeExcept(XatlasBakeExcept, "emit", "blender_bake")
                    ELSE /\ pc' = "blender_bake"
                         /\ UNCHANGED <<texture_enabled, texture_backend, raiseCause>>
       ELSE /\ pc' = "blender_bake"
            /\ UNCHANGED <<texture_enabled, texture_backend, raiseCause,
                           outputs, files, events, trace>>
    /\ UNCHANGED <<inputs, others, xatlas, blender_path, selected, frames>>

(***************************************************************************)
(* run, lines 187-201, with _bake_with_blender (lines 552-601): a          *)
(* temporary directory, the subprocess, the checks of its exit code and of *)
(* its two output files, and the removal of the directory in "finally".    *)
(***************************************************************************)
BlenderFailures == {"nonzero_exit", "missing_glb", "missing_texture"}

\* what the subprocess left under out_dir
BlenderFiles(outcome) ==
    IF outcome = "nonzero_exit" THEN files
    ELSE IF outcome = "missing_glb" THEN [files EXCEPT !.albedo = TRUE]
    ELSE IF outcome = "missing_texture"
    THEN [files EXCEPT !.glb = "textured_blender"]
    ELSE [files EXCEPT !.albedo = TRUE, !.glb = "textured_blender"]

BlenderBake ==
    /\ pc = "blender_bake"
    /\ IF /\ texture_enabled
          /\ blender_path
          /\ texture_backend \in {"auto", "blender"}
          /\ outputs.mesh_path = ""
       THEN \/ \E outcome \in BlenderFailures :
                 /\ outputs' = outputs
                 /\ files' = BlenderFiles(outcome)
                 /\ events' = events
                 /\ trace' = trace \o <<"blender_bake", "mkdtemp", outcome, "rmtree">>
                 /\ texture_enabled' = BlenderBakeExcept.texture_enabled
                 /\ BakeExcept(BlenderBakeExcept, "blender_bake", "export")
            \/ \E r \in report(95, "Texture baked") :
                 /\ outputs' = [outputs EXCEPT !.mesh_path = "model.glb",
                                               !.texture_path = "albedo.png"]
                 /\ files' = BlenderFiles("ok")
                 /\ events' = events \o r.sent
                 /\ trace' = trace \o <<"blender_bake", "mkdtemp", "rmtree",
                                        "blender_baked">>
                 /\ IF r.raised
                    THEN /\ texture_enabled' = BlenderBakeExcept.texture_enabled
                         /\ BakeExcept(BlenderBakeExcept, "emit", "export")
                    ELSE /\ pc' = "export"
                         /\ UNCHANGED <<texture_enabled, raiseCause>>
       ELSE /\ pc' = "export"
            /\ UNCHANGED <<texture_enabled, raiseCause, outputs, files, events,
                           trace>>
    /\ UNCHANGED <<inputs, others, texture_backend, xatlas, blender_path, selected,
                   frames>>

(***************************************************************************)
(* run, lines 203-213: the untextured export, the last report, the return  *)
(***************************************************************************)
\* an untextured export that forgets to record the path
UntexturedMeshPath_Unset == ""

\* outputs.mesh_path = out_dir / "model.glb"
UntexturedMeshPath == "model.glb"

ExportUntextured ==
    /\ pc = "export"
    /\ IF outputs.mesh_path = ""
       THEN /\ files' = [files EXCEPT !.glb = "untextured"]
            /\ outputs' = [outputs EXCEPT !.mesh_path = UntexturedMeshPath]
            /\ trace' = Append(trace, "export_untextured")
       ELSE UNCHANGED <<files, outputs, trace>>
    /\ \E r \in report(100, "Rebuild complete") : AfterReport(r, "returned")
    /\ UNCHANGED <<inputs, others, locals, selected, frames>>

Next ==
    \/ Start
    \/ Setup
    \/ BuildFrames
    \/ FuseStart
    \/ Fuse
    \/ MeshFromPoints
    \/ CleanupMesh
    \/ Decimate
    \/ ExportPoints
    \/ XatlasBake
    \/ BlenderBake
    \/ ExportUntextured

Spec == Init /\ [][Next]_vars

(***************************************************************************)
(* Vocabulary of the properties of run                                     *)
(***************************************************************************)
InTrace(step) == step \in Range(trace)

\* position of the first occurrence of a step, 0 when absent
Pos(step) ==
    IF InTrace(step)
    THEN CHOOSE i \in 1..Len(trace) :
            trace[i] = step /\ \A j \in 1..(i - 1) : trace[j] # step
    ELSE 0

Ended == pc \in {"returned", "raised"}

PastFrames ==
    {"fuse", "fusing", "meshing", "cleanup", "decimate", "points",
     "xatlas_bake", "blender_bake", "export", "returned"}

XatlasBakeFailed == \E f \in XatlasFailures : InTrace(f)
BlenderBakeFailed == \E f \in BlenderFailures : InTrace(f)
BakeSucceeded == InTrace("xatlas_baked") \/ InTrace("blender_baked")

\* the progress values passed to emit, in order
RECURSIVE ProgressOf(_)
ProgressOf(evs) ==
    IF evs = <<>> THEN <<>>
    ELSE IF Head(evs).kind = "progress"
         THEN <<Head(evs).progress>> \o ProgressOf(Tail(evs))
         ELSE ProgressOf(Tail(evs))

IsPrefix(s, t) == Len(s) <= Len(t) /\ \A i \in 1..Len(s) : s[i] = t[i]

NoDuplicates(s) == \A i, j \in 1..Len(s) : i # j => s[i] # s[j]

\* no index chosen by _select_views is a key of depth_paths
NoSelectedViewHasDepth ==
    Range(select_views(config, total)) \cap depth_paths = {}

\* the (progress, message) pairs of the calls of report in run
ReportCalls ==
    {<<0, "Rebuild started">>, <<20, "Prepared views">>,
     <<30, "Fusing TSDF">>, <<65, "TSDF fusion complete">>,
     <<30, "Fusing points">>, <<55, "Point fusion complete">>,
     <<70, "Meshing complete">>, <<80, "Mesh cleanup complete">>,
     <<85, "Mesh simplified">>, <<90, "Point cloud exported">>,
     <<95, "Texture baked">>, <<100, "Rebuild complete">>}

\* the milestones of a complete run, with or without a successful bake
Milestones(with95) ==
    <<0, 20, 30>>
    \o (IF config.recon_fusion = "tsdf" THEN <<65>> ELSE <<55, 70>>)
    \o <<80>>
    \o (IF config.recon_target_tris > 0 THEN <<85>> ELSE <<>>)
    \o (IF config.points_enabled THEN <<90>> ELSE <<>>)
    \o (IF with95 THEN <<95>> ELSE <<>>)
    \o <<100>>

(***************************************************************************)
(* C1: whenever run returns normally, ReconOutputs.mesh_path is set,       *)
(* whatever the texture configuration, the availability of xatlas and of   *)
(* Blender, and the outcome of either bake.                                *)
(***************************************************************************)
C1_MeshPathSetOnReturn ==
    pc = "returned" => outputs.mesh_path # ""

\* a return after a missing xatlas and a failed Blender bake
C1_Witness ==
    /\ pc = "returned"
    /\ config.texture_enabled
    /\ InTrace("xatlas_missing")
    /\ BlenderBakeFailed
    /\ outputs.mesh_path = "model.glb"

(***************************************************************************)
(* C2: with texturing enabled, a missing unwrap library, an unresolvable   *)
(* Blender, an exception of the xatlas bake and a failed Blender           *)
(* subprocess are all caught: none of them is ever the exception that      *)
(* leaves run, and once a bake has failed and none has succeeded the run   *)
(* goes on to the untextured export, which is the mesh it returns.         *)
(***************************************************************************)
C2_TextureFailuresAreCaught ==
    /\ pc = "raised" => raiseCause \in {"emit", "no_valid_views", "fusion"}
    /\ (XatlasBakeFailed \/ BlenderBakeFailed) /\ Ended =>
          /\ InTrace("export_untextured")
          /\ files.glb = "untextured"
          /\ outputs.mesh_path = "model.glb"
          /\ (pc = "raised" => raiseCause = "emit")
    /\ /\ config.texture_enabled
       /\ InTrace("xatlas_missing") \/ InTrace("blender_unresolved")
       /\ ~BakeSucceeded
       /\ pc = "returned"
       => files.glb = "untextured" /\ outputs.mesh_path = "model.glb"

\* a return after the Blender subprocess failed
C2_Witness ==
    /\ pc = "returned"
    /\ config.texture_enabled
    /\ BlenderBakeFailed
    /\ files.glb = "untextured"

(***************************************************************************)
(* C3: when texturing is enabled, the backend is auto, the xatlas bake     *)
(* raises and a Blender executable is resolvable, the Blender bake is      *)
(* attempted before the untextured export.                                 *)
(***************************************************************************)
C3_BlenderTriedAfterXatlasFailure ==
    /\ config.texture_enabled
    /\ lower_backend(config.texture_backend) = "auto"
    /\ XatlasBakeFailed
    /\ blender_path
    /\ InTrace("export_untextured")
    => /\ InTrace("blender_bake")
       /\ Pos("blender_bake") < Pos("export_untextured")

(***************************************************************************)
(* C4: on every normal return, texture_path is set only if the mesh at     *)
(* mesh_path is the textured mesh of a bake that succeeded end to end.     *)
(***************************************************************************)
C4_TexturePathOnlyWithTexturedMesh ==
    pc = "returned" /\ outputs.texture_path # "" =>
        /\ BakeSucceeded
        /\ files.glb \in {"textured_xatlas", "textured_blender"}

(***************************************************************************)
(* C5: if no selected view index has an entry in depth_paths, run raises   *)
(* the no-valid-views RuntimeError after emitting only the 0.0 milestone,  *)
(* before any fusion, meshing or export step, and returns no outputs.      *)
(***************************************************************************)
C5_NoViewsRaises ==
    NoSelectedViewHasDepth =>
        /\ pc \notin PastFrames
        /\ outputs = NoOutputs
        /\ files = NoFiles
        /\ Range(ProgressOf(events)) \subseteq {0}
        /\ pc = "raised" => raiseCause = "no_valid_views"

(***************************************************************************)
(* C6: if every selected view has a depth image but none keeps a valid     *)
(* (non-zero) depth pixel after alpha masking, run fails with the          *)
(* no-valid-views error instead of proceeding to fusion.                   *)
(***************************************************************************)
C6_AllZeroDepthRaises ==
    /\ InTrace("build_frames")
    /\ selected # <<>>
    /\ Range(selected) \subseteq depth_paths
    /\ \A i \in 1..Len(frames) : ~frames[i].nonzero_depth
    => pc \notin PastFrames

(***************************************************************************)
(* C7: an exception raised by the emit callback never aborts the           *)
(* reconstruction.                                                         *)
(***************************************************************************)
C7_EmitExceptionNeverAborts ==
    ~(pc = "raised" /\ raiseCause = "emit")

(***************************************************************************)
(* C8: every progress event passed to emit carries a progress value in     *)
(* [0,1], follows immediately the log event of its report, and both carry  *)
(* the caller's emit_stage.                                                *)
(***************************************************************************)
C8_ProgressEventsWellFormed ==
    \A i \in 1..Len(events) :
        /\ events[i].stage = emit_stage
        /\ events[i].kind = "progress" =>
              /\ events[i].progress >= 0
              /\ events[i].progress <= 100
              /\ i > 1
              /\ events[i - 1].kind = "log"
              /\ <<events[i].progress, events[i - 1].message>> \in ReportCalls

\* a caller-chosen stage on the events of a run that reached the bake
C8_Witness ==
    /\ emit_stage = "recon"
    /\ Len(events) >= 2
    /\ events[Len(events)].kind = "progress"
    /\ events[Len(events)].progress = 95
    /\ events[Len(events) - 1].message = "Texture baked"

(***************************************************************************)
(* C9: the emitted progress values are non-decreasing, start at 0.0 and    *)
(* follow the fixed milestones of the fusion mode; 1.0 is emitted exactly  *)
(* once, as the last event, if and only if run returns normally; 0.95 is   *)
(* emitted only when a texture bake succeeded.                             *)
(***************************************************************************)
C9_ProgressMilestones ==
    LET p == ProgressOf(events)
    IN /\ \A i \in 1..(Len(p) - 1) : p[i] <= p[i + 1]
       /\ IsPrefix(p, Milestones(95 \in Range(p)))
       /\ 95 \in Range(p) => BakeSucceeded
       /\ Cardinality({i \in 1..Len(p) : p[i] = 100}) <= 1
       /\ 100 \in Range(p) => events[Len(events)].progress = 100
       /\ 100 \in Range(p) => pc = "returned"
       /\ pc = "returned" /\ emit # "none" => 100 \in Range(p)

(***************************************************************************)
(* SpecSelect: _select_views applied to every total and every validated    *)
(* selection configuration within the bounds                               *)
(***************************************************************************)
SelectViewIndices ==
    {None} \cup {Some(v) : v \in SeqsUpTo(0..MaxTotal, MaxIdxLen) \ {<<>>}}

SelectImages == {None} \cup {Some(k) : k \in 1..(MaxTotal + 1)}

SelectConfigs ==
    [texture_enabled : {TRUE},
     texture_backend : {"auto"},
     recon_fusion : {"points"},
     recon_method : {"poisson"},
     recon_target_tris : {2000},
     points_enabled : {TRUE},
     recon_view_indices : {v \in SelectViewIndices : validate_view_indices(v)},
     recon_images : SelectImages]

InitSelect ==
    /\ pc = "select"
    /\ raiseCause = ""
    /\ config \in SelectConfigs
    /\ total \in 0..MaxTotal
    /\ depth_paths = {}
    /\ emit = "none"
    /\ emit_stage = "rebuild"
    /\ texture_enabled = FALSE
    /\ texture_backend = ""
    /\ xatlas = FALSE
    /\ blender_path = FALSE
    /\ selected = <<>>
    /\ frames = <<>>
    /\ outputs = NoOutputs
    /\ files = NoFiles
    /\ events = <<>>
    /\ trace = <<>>
    /\ args = None
    /\ ret = None
    /\ table = {}
    /\ jobs = <<>>
    /\ job_events = <<>>

SelectViews ==
    /\ pc = "select"
    /\ selected' = select_views(config, total)
    /\ pc' = "selected"
    /\ UNCHANGED <<raiseCause, inputs, locals, frames, outputs, files, events,
                   trace, others>>

NextSelect == SelectViews

SpecSelect == InitSelect /\ [][NextSelect]_vars

(***************************************************************************)
(* C10: for every total and every configuration (explicit                  *)
(* recon_view_indices, repeated entries included, or recon_images          *)
(* sampling) the list returned by _select_views has no duplicate index.    *)
(***************************************************************************)
C10_SelectedHasNoDuplicates ==
    pc = "selected" => NoDuplicates(selected)

(***************************************************************************)
(* SpecSample: _select_views without explicit indices, for every total up  *)
(* to MaxSampleTotal and every recon_images                                *)
(***************************************************************************)
SampleConfigs ==
    [texture_enabled : {TRUE},
     texture_backend : {"auto"},
     recon_fusion : {"points"},
     recon_method : {"poisson"},
     recon_target_tris : {2000},
     points_enabled : {TRUE},
     recon_view_indices : {None},
     recon_images : {None} \cup {Some(k) : k \in 1..(MaxSampleTotal + 1)}]

InitSample ==
    /\ pc = "select"
    /\ raiseCause = ""
    /\ config \in SampleConfigs
    /\ total \in 0..MaxSampleTotal
    /\ depth_paths = {}
    /\ emit = "none"
    /\ emit_stage = "rebuild"
    /\ texture_enabled = FALSE
    /\ texture_backend = ""
    /\ xatlas = FALSE
    /\ blender_path = FALSE
    /\ selected = <<>>
    /\ frames = <<>>
    /\ outputs = NoOutputs
    /\ files = NoFiles
    /\ events = <<>>
    /\ trace = <<>>
    /\ args = None
    /\ ret = None
    /\ table = {}
    /\ jobs = <<>>
    /\ job_events = <<>>

SpecSample == InitSample /\ [][NextSelect]_vars

AllIndices(n) == [i \in 1..n |-> i - 1]

StrictlyIncreasing(s) == \A i \in 1..(Len(s) - 1) : s[i] < s[i + 1]

(***************************************************************************)
(* C11: with no explicit view indices, _select_views returns 0..total-1 in *)
(* order when recon_images is unset or at least total, and when            *)
(* recon_images = k < total it returns exactly k strictly increasing       *)
(* indices, the i-th (from 0) being floor(i * total / k).                  *)
(***************************************************************************)
C11_SampledIndicesAreExactFloors ==
    pc = "selected" /\ IsNone(config.recon_view_indices) =>
        IF IsNone(config.recon_images) \/ Val(config.recon_images) >= total
        THEN selected = AllIndices(total)
        ELSE LET k == Val(config.recon_images)
             IN /\ Len(selected) = k
                /\ StrictlyIncreasing(selected)
                /\ \A i \in 0..(k - 1) : selected[i + 1] = (i * total) \div k

(***************************************************************************)
(* C12: when explicit recon_view_indices are configured and none of them   *)
(* is below total, _select_views returns all indices 0..total-1, whatever  *)
(* recon_images is.                                                        *)
(***************************************************************************)
C12_EmptyFilterReturnsAll ==
    (/\ pc = "selected"
     /\ ~IsNone(config.recon_view_indices)
     /\ SelectSeq2(Val(config.recon_view_indices), 0..(total - 1)) = <<>>)
    => selected = AllIndices(total)

(***************************************************************************)
(* _default_angles.  An angle in degrees is a reduced fraction <<n, d>>,   *)
(* d > 0; a pair is <<azimuth, elevation>>.                                *)
(***************************************************************************)
RECURSIVE Gcd(_, _)
Gcd(a, b) == IF b = 0 THEN a ELSE Gcd(b, a % b)

Abs(a) == IF a < 0 THEN -a ELSE a

Rat(n, d) == LET g == Gcd(Abs(n), d) IN <<n \div g, d \div g>>

Deg(n) == <<n, 1>>

\* list(zip(a, b))
Zip(a, b) == [i \in 1..Min(Len(a), Len(b)) |-> <<a[i], b[i]>>]

\* _default_angles without the table of the 2x3 grid
default_angles_ConfigElevation(cfg, count) ==
    LET az == IF IsNone(cfg.views_azimuths_deg) THEN <<>>
              ELSE Val(cfg.views_azimuths_deg)
        el == IF IsNone(cfg.views_elevations_deg) THEN <<>>
              ELSE Val(cfg.views_elevations_deg)
        pairs == Zip(az, el)
    IN IF az # <<>> /\ el # <<>> /\ Len(pairs) >= count
       THEN SubSeq(pairs, 1, count)
       ELSE [i \in 1..count |->
                <<Rat((i - 1) * 360, count), Deg(cfg.views_elev_deg)>>]

\* _default_angles returning every configured pair, not the first count
default_angles_Untruncated(cfg, count) ==
    LET az == IF IsNone(cfg.views_azimuths_deg) THEN <<>>
              ELSE Val(cfg.views_azimuths_deg)
        el == IF IsNone(cfg.views_elevations_deg) THEN <<>>
              ELSE Val(cfg.views_elevations_deg)
        pairs == Zip(az, el)
    IN IF az # <<>> /\ el # <<>> /\ Len(pairs) >= count
       THEN pairs
       ELSE IF count = 6
       THEN Zip(<<Deg(30), Deg(90), Deg(150), Deg(210), Deg(270), Deg(330)>>,
                <<Deg(20), Deg(20), Deg(20), Deg(-20), Deg(-20), Deg(-20)>>)
       ELSE [i \in 1..count |->
                <<Rat((i - 1) * 360, count), Deg(cfg.views_elev_deg)>>]

default_angles(cfg, count) ==
    LET az == IF IsNone(cfg.views_azimuths_deg) THEN <<>>
              ELSE Val(cfg.views_azimuths_deg)
        el == IF IsNone(cfg.views_elevations_deg) THEN <<>>
              ELSE Val(cfg.views_elevations_deg)
        pairs == Zip(az, el)
    IN IF az # <<>> /\ el # <<>> /\ Len(pairs) >= count
       THEN SubSeq(pairs, 1, count)
       ELSE IF count = 6
       THEN Zip(<<Deg(30), Deg(90), Deg(150), Deg(210), Deg(270), Deg(330)>>,
                <<Deg(20), Deg(20), Deg(20), Deg(-20), Deg(-20), Deg(-20)>>)
       ELSE [i \in 1..count |->
                <<Rat((i - 1) * 360, count), Deg(cfg.views_elev_deg)>>]

(***************************************************************************)
(* SpecAngles: _default_angles applied to every count up to MaxCount and   *)
(* every length of the two override lists                                  *)
(***************************************************************************)
OverrideAzimuths(len) == [j \in 1..len |-> Deg(40 * j)]
OverrideElevations(len) == [j \in 1..len |-> Deg(-j)]

AngleConfigs ==
    [views_azimuths_deg :
         {None} \cup {Some(OverrideAzimuths(l)) : l \in 0..(MaxCount + 1)},
     views_elevations_deg :
         {None} \cup {Some(OverrideElevations(l)) : l \in 0..(MaxCount + 1)},
     views_elev_deg : {10, -60}]

InitAngles ==
    /\ pc = "default_angles"
    /\ raiseCause = ""
    /\ config \in AngleConfigs
    /\ total = 0
    /\ depth_paths = {}
    /\ emit = "none"
    /\ emit_stage = "rebuild"
    /\ texture_enabled = FALSE
    /\ texture_backend = ""
    /\ xatlas = FALSE
    /\ blender_path = FALSE
    /\ selected = <<>>
    /\ frames = <<>>
    /\ outputs = NoOutputs
    /\ files = NoFiles
    /\ events = <<>>
    /\ trace = <<>>
    /\ args \in [count : 0..MaxCount]
    /\ ret = None
    /\ table = {}
    /\ jobs = <<>>
    /\ job_events = <<>>

run_state == <<raiseCause, inputs, locals, selected, frames, outputs, files,
               events, trace>>

DefaultAngles ==
    /\ pc = "default_angles"
    /\ ret' = Some(default_angles(config, args.count))
    /\ pc' = "default_angles_done"
    /\ UNCHANGED <<run_state, args, table, jobs, job_events>>

NextAngles == DefaultAngles

SpecAngles == InitAngles /\ [][NextAngles]_vars

GridAngles ==
    <<<<Deg(30), Deg(20)>>, <<Deg(90), Deg(20)>>, <<Deg(150), Deg(20)>>,
      <<Deg(210), Deg(-20)>>, <<Deg(270), Deg(-20)>>, <<Deg(330), Deg(-20)>>>>

\* the number of (azimuth, elevation) override pairs, 0 when either list is
\* unset
OverridePairs ==
    IF IsNone(config.views_azimuths_deg) \/ IsNone(config.views_elevations_deg)
    THEN 0
    ELSE Min(Len(Val(config.views_azimuths_deg)),
             Len(Val(config.views_elevations_deg)))

(***************************************************************************)
(* C13: for count = 6 with no azimuth/elevation overrides, or with fewer   *)
(* than 6 override pairs, _default_angles returns exactly the azimuths     *)
(* (30,90,150,210,270,330) paired with the elevations                      *)
(* (20,20,20,-20,-20,-20) in view-index order, whatever views_elev_deg is. *)
(***************************************************************************)
C13_SixViewsUseGridAngles ==
    pc = "default_angles_done" /\ args.count = 6 /\ OverridePairs < 6
        => Val(ret) = GridAngles

C13_Witness ==
    /\ pc = "default_angles_done"
    /\ args.count = 6
    /\ OverridePairs = 5
    /\ config.views_elev_deg # 20
    /\ Val(ret) = GridAngles

(***************************************************************************)
(* _camera_pose / _look_at in exact rational arithmetic.  A number is a    *)
(* reduced fraction <<n, d>>, a vector a triple of numbers, a 3x3 matrix a *)
(* triple of rows.  The eye positions are those whose norms are rational,  *)
(* so that every square root is exact; the 1e-8 added to each norm before  *)
(* the division is dropped for a non-zero norm and keeps a zero vector     *)
(* zero.                                                                   *)
(***************************************************************************)
RAdd(a, b) == Rat(a[1] * b[2] + b[1] * a[2], a[2] * b[2])
RMul(a, b) == Rat(a[1] * b[1], a[2] * b[2])
RNeg(a) == <<-a[1], a[2]>>
RSub(a, b) == RAdd(a, RNeg(b))
RDiv(a, b) == IF b[1] > 0 THEN Rat(a[1] * b[2], a[2] * b[1])
              ELSE Rat(-(a[1] * b[2]), a[2] * (-b[1]))

ISqrt(n) == CHOOSE r \in 0..n : r * r = n
IsSquare(n) == \E r \in 0..n : r * r = n
RSqrt(a) == <<ISqrt(a[1]), ISqrt(a[2])>>

Dot(a, b) == RAdd(RAdd(RMul(a[1], b[1]), RMul(a[2], b[2])), RMul(a[3], b[3]))
Cross(a, b) ==
    <<RSub(RMul(a[2], b[3]), RMul(a[3], b[2])),
      RSub(RMul(a[3], b[1]), RMul(a[1], b[3])),
      RSub(RMul(a[1], b[2]), RMul(a[2], b[1]))>>
VNeg(a) == <<RNeg(a[1]), RNeg(a[2]), RNeg(a[3])>>
VSub(a, b) == <<RSub(a[1], b[1]), RSub(a[2], b[2]), RSub(a[3], b[3])>>

\* v / (np.linalg.norm(v) + 1e-8)
Unit(v) ==
    LET norm == RSqrt(Dot(v, v))
    IN IF norm = Deg(0) THEN v
       ELSE <<RDiv(v[1], norm), RDiv(v[2], norm), RDiv(v[3], norm)>>

FromCols(c1, c2, c3) == [i \in 1..3 |-> <<c1[i], c2[i], c3[i]>>]
Col(m, j) == <<m[1][j], m[2][j], m[3][j]>>
MatVec(m, v) == <<Dot(m[1], v), Dot(m[2], v), Dot(m[3], v)>>
MatMul(a, b) ==
    FromCols(MatVec(a, Col(b, 1)), MatVec(a, Col(b, 2)), MatVec(a, Col(b, 3)))
Det3(m) == Dot(Col(m, 1), Cross(Col(m, 2), Col(m, 3)))

\* the rotation block and the translation column of cam_to_world
look_at(eye, target, up) ==
    LET forward == Unit(VSub(target, eye))
        right == Unit(Cross(forward, up))
        up_vec == Unit(Cross(forward, right))
    IN [rot |-> FromCols(right, VNeg(up_vec), forward), trans |-> eye]

\* np.linalg.inv of the 4x4 matrix [rot trans; 0 0 0 1]: None when it is
\* singular (LinAlgError)
inv(pose) ==
    LET det == Det3(pose.rot)
        c1 == Col(pose.rot, 1)
        c2 == Col(pose.rot, 2)
        c3 == Col(pose.rot, 3)
        over(v) == <<RDiv(v[1], det), RDiv(v[2], det), RDiv(v[3], det)>>
        r == <<over(Cross(c2, c3)), over(Cross(c3, c1)), over(Cross(c1, c2))>>
    IN IF det = Deg(0) THEN None
       ELSE Some([rot |-> r, trans |-> VNeg(MatVec(r, pose.trans))])

Vec(x, y, z) == <<Deg(x), Deg(y), Deg(z)>>

\* the eye positions r * (cos el sin az, sin el, cos el cos az) with
\* integer coordinates and rational r and cos el
Eyes ==
    {e \in (-MaxCoord..MaxCoord) \X (-MaxCoord..MaxCoord)
            \X (-MaxCoord..MaxCoord) :
        /\ e # <<0, 0, 0>>
        /\ IsSquare(e[1] * e[1] + e[3] * e[3])
        /\ IsSquare(e[1] * e[1] + e[2] * e[2] + e[3] * e[3])}

(***************************************************************************)
(* SpecPose: the pose of one view (_build_frames, lines 283-290) for every *)
(* eye position of Eyes                                                    *)
(***************************************************************************)
\* no call of run is in progress
NoRun ==
    /\ raiseCause = ""
    /\ total = 0
    /\ depth_paths = {}
    /\ emit = "none"
    /\ emit_stage = "rebuild"
    /\ texture_enabled = FALSE
    /\ texture_backend = ""
    /\ xatlas = FALSE
    /\ blender_path = FALSE
    /\ selected = <<>>
    /\ frames = <<>>
    /\ outputs = NoOutputs
    /\ files = NoFiles
    /\ events = <<>>
    /\ trace = <<>>

NoStore ==
    /\ table = {}
    /\ jobs = <<>>
    /\ job_events = <<>>

InitPose ==
    /\ pc = "camera_pose"
    /\ NoRun
    /\ NoStore
    /\ config = None
    /\ args \in [eye : {Vec(e[1], e[2], e[3]) : e \in Eyes}]
    /\ ret = None

CameraPose ==
    /\ pc = "camera_pose"
    /\ LET cam_to_world == look_at(args.eye, Vec(0, 0, 0), Vec(0, 1, 0))
       IN ret' = Some([cam_to_world |-> cam_to_world,
                       world_to_cam |-> inv(cam_to_world),
                       eye |-> args.eye])
    /\ pc' = "camera_pose_done"
    /\ UNCHANGED <<run_state, args, table, jobs, job_events>>

NextPose == CameraPose

SpecPose == InitPose /\ [][NextPose]_vars

Identity3 == FromCols(Vec(1, 0, 0), Vec(0, 1, 0), Vec(0, 0, 1))
Transpose(m) == FromCols(m[1], m[2], m[3])
OnYAxis(eye) == eye[1] = Deg(0) /\ eye[3] = Deg(0)

(***************************************************************************)
(* C14: for every pose built by _camera_pose/_look_at with the eye not on  *)
(* the world Y axis, the rotation block of cam_to_world is orthonormal     *)
(* with determinant +1, world_to_cam is the inverse of cam_to_world, and   *)
(* the translation column of cam_to_world is the eye.                      *)
(***************************************************************************)
C14_PoseIsProperRotation ==
    pc = "camera_pose_done" /\ ~OnYAxis(args.eye) =>
        LET c2w == Val(ret).cam_to_world
            w2c == Val(ret).world_to_cam
        IN /\ MatMul(Transpose(c2w.rot), c2w.rot) = Identity3
           /\ Det3(c2w.rot) = Deg(1)
           /\ ~IsNone(w2c)
           /\ MatMul(Val(w2c).rot, c2w.rot) = Identity3
           /\ VSub(VNeg(MatVec(Val(w2c).rot, c2w.trans)), Val(w2c).trans)
                  = Vec(0, 0, 0)
           /\ c2w.trans = Val(ret).eye
           /\ Val(ret).eye = args.eye

(***************************************************************************)
(* Loading one view: _load_color, _load_depth and the alpha masking of     *)
(* _build_frames.  An image is [mode, shape, px]: shape is <<height,       *)
(* width>>, px the pixels row by row.  Depths are exact fractions.         *)
(***************************************************************************)
RLe(a, b) == a[1] * b[2] <= b[1] * a[2]

\* Image.convert("L") of an RGB image (Pillow's integer luma)
ConvertL(img) ==
    [mode |-> "L", shape |-> img.shape,
     px |-> [i \in 1..Len(img.px) |->
                (19595 * img.px[i][1] + 38470 * img.px[i][2]
                   + 7471 * img.px[i][3] + 32768) \div 65536]]

\* the dtype of np.asarray(img)
Dtype(mode) ==
    CASE mode = "L" -> "uint8"
      [] mode = "I;16" -> "uint16"
      [] mode = "I" -> "int32"

\* the depth array of _load_depth before depth_invert, lines 390-396
normalized(img) ==
    LET im == IF img.mode \notin {"L", "I;16", "I"} THEN ConvertL(img) ELSE img
    IN [i \in 1..Len(im.px) |->
           IF Dtype(im.mode) = "uint16" THEN Rat(im.px[i], 65535)
           ELSE Rat(im.px[i], 255)]

load_depth(img, cfg) ==
    LET depth == normalized(img)
        inverted == IF cfg.depth_invert
                    THEN [i \in 1..Len(depth) |-> RSub(Deg(1), depth[i])]
                    ELSE depth
    IN [shape |-> img.shape,
        px |-> [i \in 1..Len(depth) |->
                   RAdd(cfg.depth_near,
                        RMul(inverted[i],
                             RSub(cfg.depth_far, cfg.depth_near)))]]

\* a threshold one alpha byte higher
below_threshold_Inclusive(a) == a * 100 <= 5 * 255 + 25

\* alpha < 0.05 for alpha = a / 255.0, a the alpha byte
below_threshold(a) == a * 100 < 5 * 255

\* lines 258-266: the depth buffer of the frame
mask_depth(alpha, depth) ==
    IF alpha.shape = depth.shape
    THEN [depth EXCEPT !.px = [i \in 1..Len(depth.px) |->
                                  IF below_threshold(alpha.px[i]) THEN Deg(0)
                                  ELSE depth.px[i]]]
    ELSE depth

(***************************************************************************)
(* SpecFrame: one view loaded by _build_frames (lines 256-266), for every  *)
(* small alpha mask and depth image                                        *)
(***************************************************************************)
Shapes ==
    {sh \in (1..MaxSide) \X (1..MaxSide) : sh[1] * sh[2] <= MaxSide}

DepthPixels(mode) ==
    CASE mode = "L" -> {0, 255}
      [] mode = "I;16" -> {0, 65535}
      [] mode = "I" -> {0, 255, 65535}
      [] mode = "RGB" -> {<<0, 0, 0>>, <<255, 255, 255>>}

DepthImages ==
    UNION {[mode : {m}, shape : {sh},
            px : [1..(sh[1] * sh[2]) -> DepthPixels(m)]] :
               m \in {"L", "I;16", "I", "RGB"}, sh \in Shapes}

\* the alpha channel returned by _load_color, as bytes
AlphaMasks ==
    UNION {[shape : {sh}, px : [1..(sh[1] * sh[2]) -> {0, 12, 13, 255}]] :
               sh \in Shapes}

FrameConfigs ==
    [depth_invert : BOOLEAN,
     depth_near : {Rat(1, 5)},
     depth_far : {Deg(2)}]

InitFrame ==
    /\ pc = "load_frame"
    /\ NoRun
    /\ NoStore
    /\ config \in FrameConfigs
    /\ args \in [alpha : AlphaMasks, depth : DepthImages]
    /\ ret = None

LoadFrame ==
    /\ pc = "load_frame"
    /\ LET decoded == load_depth(args.depth, config)
           depth == mask_depth(args.alpha, decoded)
       IN ret' = Some([index |-> 0,
                       decoded |-> decoded,
                       depth |-> depth,
                       nonzero_depth |->
                           \E i \in 1..Len(depth.px) : depth.px[i][1] > 0])
    /\ pc' = "frame_loaded"
    /\ UNCHANGED <<run_state, args, table, jobs, job_events>>

NextFrame == LoadFrame

SpecFrame == InitFrame /\ [][NextFrame]_vars

(***************************************************************************)
(* C15: in a frame built by _build_frames, when the alpha mask and the     *)
(* depth buffer have the same height and width every pixel whose alpha is  *)
(* below 0.05 has depth 0 and every other pixel keeps its decoded depth;   *)
(* when the shapes differ no pixel is masked and the view is still         *)
(* included.                                                               *)
(***************************************************************************)
C15_AlphaMasking ==
    pc = "frame_loaded" =>
        /\ ~IsNone(ret)
        /\ LET f == Val(ret)
           IN IF args.alpha.shape = args.depth.shape
              THEN \A i \in 1..Len(f.depth.px) :
                      IF args.alpha.px[i] * 20 < 255
                      THEN f.depth.px[i] = Deg(0)
                      ELSE f.depth.px[i] = f.decoded.px[i]
              ELSE f.depth = f.decoded

C15_Witness ==
    /\ pc = "frame_loaded"
    /\ args.alpha.shape = args.depth.shape
    /\ \E i, j \in 1..Len(args.alpha.px) :
          /\ args.alpha.px[i] = 12
          /\ args.alpha.px[j] = 13
          /\ Val(ret).decoded.px[i] # Deg(0)
          /\ Val(ret).depth.px[i] = Deg(0)
          /\ Val(ret).depth.px[j] = Val(ret).decoded.px[j]
          /\ Val(ret).depth.px[j] # Deg(0)

(***************************************************************************)
(* C16: for every depth image mode that _load_depth accepts without        *)
(* conversion (L, I;16, I) and every pixel value, the normalized depth is  *)
(* in [0, 1] and the metric depth near + d * (far - near), with d replaced *)
(* by 1 - d under depth_invert, is in [depth_near, depth_far].             *)
(***************************************************************************)
C16_DepthInRange ==
    pc = "frame_loaded" /\ args.depth.mode \in {"L", "I;16", "I"} =>
        \A i \in 1..Len(args.depth.px) :
            /\ RLe(Deg(0), normalized(args.depth)[i])
            /\ RLe(normalized(args.depth)[i], Deg(1))
            /\ RLe(config.depth_near, Val(ret).decoded.px[i])
            /\ RLe(Val(ret).decoded.px[i], config.depth_far)

(***************************************************************************)
(* The texture baker: _bake_texture, _select_view_for_face,                *)
(* _rasterize_face and _sample_view_color in exact rational arithmetic.    *)
(* A texel is <<y, x>>, the texture under construction a function of the   *)
(* texels giving [tex, weights]; a view is [image, world_to_cam, fx, fy,   *)
(* cx, cy, eye] with image = [h, w, px], px a function of <<y, x>>; a      *)
(* colour is a triple of fractions.  Every non-zero fraction of the model  *)
(* is above the                                                            *)
(* cut-offs 1e-8 and 1e-6, and the coordinates are such that the floating  *)
(* point operations of the code give the exact signs.                      *)
(***************************************************************************)
Floor(q) == q[1] \div q[2]
Ceil(q) == -((-q[1]) \div q[2])
RLt(a, b) == ~RLe(b, a)
VAdd(a, b) == <<RAdd(a[1], b[1]), RAdd(a[2], b[2]), RAdd(a[3], b[3])>>
VScale(a, q) == <<RMul(a[1], q), RMul(a[2], q), RMul(a[3], q)>>
Black == Vec(0, 0, 0)

\* the first view of the highest score |normal . view_dir|, None when the
\* face is degenerate or no score is above 0.0.  view_dir is divided by
\* (its norm + 1e-8): the score of a view is dot / (|view_dir| + 1e-8), up
\* to the factor 1 / |normal| that all views share.  1e-8 is far below the
\* differences between the coordinates of the model, so it decides only
\* between scores that are equal without it: there the larger dot wins.
select_view_for_face(tri, views) ==
    LET magnitude(q) == IF q[1] < 0 THEN RNeg(q) ELSE q
        parts(normal, view_dir) ==
            [dot |-> magnitude(Dot(normal, view_dir)),
             len2 |-> Dot(view_dir, view_dir)]
        order(l, r, p, q) == RLt(r, l) \/ (l = r /\ RLt(q.dot, p.dot))
        \* score of p > score of q
        above(p, q) ==
            order(RMul(RMul(p.dot, p.dot), q.len2),
                  RMul(RMul(q.dot, q.dot), p.len2), p, q)
        best(scores) ==
            LET better(i) == /\ RLt(Deg(0), scores[i].dot)
                             /\ \A j \in 1..Len(views) :
                                   /\ ~above(scores[j], scores[i])
                                   /\ j < i => above(scores[i], scores[j])
            IN IF \E i \in 1..Len(views) : better(i)
               THEN Some(views[CHOOSE i \in 1..Len(views) : better(i)])
               ELSE None
        choose(normal, center) ==
            IF Dot(normal, normal) = Deg(0) THEN None
            ELSE best([i \in 1..Len(views) |->
                          parts(normal, VSub(views[i].eye, center))])
    IN choose(Cross(VSub(tri[2], tri[1]), VSub(tri[3], tri[1])),
              VScale(VAdd(VAdd(tri[1], tri[2]), tri[3]), Rat(1, 3)))

\* _sample_view_color accepting the points behind the camera
sample_view_color_BehindCamera(point, view, width, height) ==
    LET mix(a, b, t) == VAdd(VScale(a, RSub(Deg(1), t)), VScale(b, t))
        bilinear(img, x0, y0, dx, dy) ==
            mix(mix(img[<<y0, x0>>], img[<<y0, x0 + 1>>], dx),
                mix(img[<<y0 + 1, x0>>], img[<<y0 + 1, x0 + 1>>], dx),
                dy)
        sample(u, v) ==
            IF \/ RLt(u, Deg(0)) \/ RLt(v, Deg(0))
               \/ RLe(Deg(width - 1), u) \/ RLe(Deg(height - 1), v)
            THEN None
            ELSE Some(bilinear(view.image.px, Floor(u), Floor(v),
                               RSub(u, Deg(Floor(u))), RSub(v, Deg(Floor(v)))))
        project(proj) ==
            IF proj[3] = Deg(0) THEN None
            ELSE sample(RAdd(RDiv(RMul(view.fx, proj[1]), proj[3]), view.cx),
                        RAdd(RDiv(RMul(view.fy, proj[2]), proj[3]), view.cy))
    IN project(VAdd(MatVec(view.world_to_cam.rot, point),
                    view.world_to_cam.trans))

\* None, or the bilinear sample of the view's image at the projection
sample_view_color(point, view, width, height) ==
    LET mix(a, b, t) == VAdd(VScale(a, RSub(Deg(1), t)), VScale(b, t))
        bilinear(img, x0, y0, dx, dy) ==
            mix(mix(img[<<y0, x0>>], img[<<y0, x0 + 1>>], dx),
                mix(img[<<y0 + 1, x0>>], img[<<y0 + 1, x0 + 1>>], dx),
                dy)
        sample(u, v) ==
            IF \/ RLt(u, Deg(0)) \/ RLt(v, Deg(0))
               \/ RLe(Deg(width - 1), u) \/ RLe(Deg(height - 1), v)
            THEN None
            ELSE Some(bilinear(view.image.px, Floor(u), Floor(v),
                               RSub(u, Deg(Floor(u))), RSub(v, Deg(Floor(v)))))
        project(proj) ==
            IF RLe(proj[3], Deg(0)) THEN None
            ELSE sample(RAdd(RDiv(RMul(view.fx, proj[1]), proj[3]), view.cx),
                        RAdd(RDiv(RMul(view.fy, proj[2]), proj[3]), view.cy))
    IN project(VAdd(MatVec(view.world_to_cam.rot, point),
                    view.world_to_cam.trans))

Texels(size) == (0..(size - 1)) \X (0..(size - 1))

\* _rasterize_face skipping the texels that lie on an edge of the face
rasterize_face_OpenEdges(tri, uv, view, st, size) ==
    LET a == <<RMul(uv[1][1], Deg(size - 1)),
               RMul(RSub(Deg(1), uv[1][2]), Deg(size - 1))>>
        b == <<RMul(uv[2][1], Deg(size - 1)),
               RMul(RSub(Deg(1), uv[2][2]), Deg(size - 1))>>
        c == <<RMul(uv[3][1], Deg(size - 1)),
               RMul(RSub(Deg(1), uv[3][2]), Deg(size - 1))>>
        lo(k) == IF RLe(a[k], b[k]) /\ RLe(a[k], c[k]) THEN a[k]
                 ELSE IF RLe(b[k], c[k]) THEN b[k] ELSE c[k]
        hi(k) == IF RLe(b[k], a[k]) /\ RLe(c[k], a[k]) THEN a[k]
                 ELSE IF RLe(c[k], b[k]) THEN b[k] ELSE c[k]
        \* the colour sampled at the barycentric coordinates, None when the
        \* texel is outside the face
        shade(u, v, w) ==
            IF RLe(u, Deg(0)) \/ RLe(v, Deg(0)) \/ RLe(w, Deg(0))
            THEN None
            ELSE sample_view_color(
                     VAdd(VAdd(VScale(tri[1], w), VScale(tri[2], u)),
                          VScale(tri[3], v)),
                     view, view.image.w, view.image.h)
        weigh(u, v) == shade(u, v, RSub(RSub(Deg(1), u), v))
        \* the colour added to the texel t = <<y, x>>
        texel(t, v0, v1, denom) ==
            LET locate(v2) ==
                    weigh(RDiv(RSub(RMul(v2[1], v1[2]), RMul(v1[1], v2[2])),
                               denom),
                          RDiv(RSub(RMul(v0[1], v2[2]), RMul(v2[1], v0[2])),
                               denom))
            IN locate(<<RSub(Deg(t[2]), a[1]), RSub(Deg(t[1]), a[2])>>)
        cross2(v0, v1) == RSub(RMul(v0[1], v1[2]), RMul(v1[1], v0[2]))
        \* the loop over the texels of the bounding box
        fill(min_u, max_u, min_v, max_v, v0, v1, denom) ==
            IF min_u >= max_u \/ min_v >= max_v THEN st
            ELSE IF denom = Deg(0) THEN st
            ELSE [t \in Texels(size) |->
                     LET add(color) ==
                             IF IsNone(color) THEN st[t]
                             ELSE [tex |-> VAdd(st[t].tex, Val(color)),
                                   weights |-> st[t].weights + 1]
                     IN IF t[1] \notin min_v..max_v \/ t[2] \notin min_u..max_u
                        THEN st[t]
                        ELSE add(texel(t, v0, v1, denom))]
        edges(v0, v1) ==
            fill(Max(Floor(lo(1)), 0), Min(Ceil(hi(1)), size - 1),
                 Max(Floor(lo(2)), 0), Min(Ceil(hi(2)), size - 1),
                 v0, v1, cross2(v0, v1))
    IN edges(<<RSub(b[1], a[1]), RSub(b[2], a[2])>>,
             <<RSub(c[1], a[1]), RSub(c[2], a[2])>>)

rasterize_face(tri, uv, view, st, size) ==
    LET a == <<RMul(uv[1][1], Deg(size - 1)),
               RMul(RSub(Deg(1), uv[1][2]), Deg(size - 1))>>
        b == <<RMul(uv[2][1], Deg(size - 1)),
               RMul(RSub(Deg(1), uv[2][2]), Deg(size - 1))>>
        c == <<RMul(uv[3][1], Deg(size - 1)),
               RMul(RSub(Deg(1), uv[3][2]), Deg(size - 1))>>
        lo(k) == IF RLe(a[k], b[k]) /\ RLe(a[k], c[k]) THEN a[k]
                 ELSE IF RLe(b[k], c[k]) THEN b[k] ELSE c[k]
        hi(k) == IF RLe(b[k], a[k]) /\ RLe(c[k], a[k]) THEN a[k]
                 ELSE IF RLe(c[k], b[k]) THEN b[k] ELSE c[k]
        \* the colour sampled at the barycentric coordinates, None when the
        \* texel is outside the face
        shade(u, v, w) ==
            IF RLt(u, Deg(0)) \/ RLt(v, Deg(0)) \/ RLt(w, Deg(0))
            THEN None
            ELSE sample_view_color(
                     VAdd(VAdd(VScale(tri[1], w), VScale(tri[2], u)),
                          VScale(tri[3], v)),
                     view, view.image.w, view.image.h)
        weigh(u, v) == shade(u, v, RSub(RSub(Deg(1), u), v))
        \* the colour added to the texel t = <<y, x>>
        texel(t, v0, v1, denom) ==
            LET locate(v2) ==
                    weigh(RDiv(RSub(RMul(v2[1], v1[2]), RMul(v1[1], v2[2])),
                               denom),
                          RDiv(RSub(RMul(v0[1], v2[2]), RMul(v2[1], v0[2])),
                               denom))
            IN locate(<<RSub(Deg(t[2]), a[1]), RSub(Deg(t[1]), a[2])>>)
        cross2(v0, v1) == RSub(RMul(v0[1], v1[2]), RMul(v1[1], v0[2]))
        \* the loop over the texels of the bounding box
        fill(min_u, max_u, min_v, max_v, v0, v1, denom) ==
            IF min_u >= max_u \/ min_v >= max_v THEN st
            ELSE IF denom = Deg(0) THEN st
            ELSE [t \in Texels(size) |->
                     LET add(color) ==
                             IF IsNone(color) THEN st[t]
                             ELSE [tex |-> VAdd(st[t].tex, Val(color)),
                                   weights |-> st[t].weights + 1]
                     IN IF t[1] \notin min_v..max_v \/ t[2] \notin min_u..max_u
                        THEN st[t]
                        ELSE add(texel(t, v0, v1, denom))]
        edges(v0, v1) ==
            fill(Max(Floor(lo(1)), 0), Min(Ceil(hi(1)), size - 1),
                 Max(Floor(lo(2)), 0), Min(Ceil(hi(2)), size - 1),
                 v0, v1, cross2(v0, v1))
    IN edges(<<RSub(b[1], a[1]), RSub(b[2], a[2])>>,
             <<RSub(c[1], a[1]), RSub(c[2], a[2])>>)

RECURSIVE bake_faces(_, _, _, _, _, _)
\* the loop over the faces of _bake_texture
bake_faces(vertices, faces, uvs, views, st, size) ==
    IF faces = <<>> THEN st
    ELSE LET face == Head(faces)
             tri == [i \in 1..3 |-> vertices[face[i]]]
             uv == [i \in 1..3 |-> uvs[face[i]]]
             paint(view) ==
                 IF IsNone(view) THEN st
                 ELSE rasterize_face(tri, uv, Val(view), st, size)
         IN bake_faces(vertices, Tail(faces), uvs, views,
                       paint(select_view_for_face(tri, views)), size)

\* _bake_texture without the division by the weights
bake_texture_Unaveraged(vertices, faces, uvs, views, texture_size) ==
    LET zero == [t \in Texels(texture_size) |-> [tex |-> Black, weights |-> 0]]
        byte(q) == Max(0, Min(255, Floor(q)))
        average(s) == s.tex
        pixel(s, c) == [color |-> <<byte(c[1]), byte(c[2]), byte(c[3])>>,
                        weights |-> s.weights]
        finish(st) ==
            [t \in Texels(texture_size) |-> pixel(st[t], average(st[t]))]
    IN finish(bake_faces(vertices, faces, uvs, views, zero, texture_size))

\* the texture image with, for each texel, the weight _bake_texture
\* accumulated; st[t] is <<tex[y, x], weights[y, x]>> of the code
bake_texture(vertices, faces, uvs, views, texture_size) ==
    LET zero == [t \in Texels(texture_size) |-> [tex |-> Black, weights |-> 0]]
        byte(q) == Max(0, Min(255, Floor(q)))
        average(s) == IF s.weights > 0 THEN VScale(s.tex, Rat(1, s.weights))
                      ELSE s.tex
        pixel(s, c) == [color |-> <<byte(c[1]), byte(c[2]), byte(c[3])>>,
                        weights |-> s.weights]
        finish(st) ==
            [t \in Texels(texture_size) |-> pixel(st[t], average(st[t]))]
    IN finish(bake_faces(vertices, faces, uvs, views, zero, texture_size))

(***************************************************************************)
(* SpecBake: _bake_texture of one triangle in the plane z = 0 with UV = XY *)
(* seen by one camera on the Z axis.  The texture has 2^TexBits + 1 texels *)
(* a side and the coordinates are multiples of 1/4.                        *)
(***************************************************************************)
TextureSize == 2 ^ TexBits + 1

UVCoords == {Rat(k, 4) : k \in 0..4}

UVHalves == {Deg(0), Rat(1, 2), Deg(1)}

\* the corners of one face: the first anywhere on the grid of quarters,
\* the other two on the grid of halves
BakeTriangles ==
    {tri \in (UVCoords \X UVCoords) \X (UVHalves \X UVHalves)
                \X (UVHalves \X UVHalves) : tri[2] # tri[3]}

BakeImage ==
    [h |-> 4, w |-> 4,
     px |-> [t \in Texels(4) |->
                Vec(40 * t[2] + 10, 40 * t[1] + 10, 200)]]

\* a ViewFrame as _bake_texture reads it
BakeFrame(eye, f) ==
    [image |-> BakeImage,
     world_to_cam |-> Val(inv(look_at(eye, Vec(0, 0, 0), Vec(0, 1, 0)))),
     fx |-> f, fy |-> f, cx |-> Deg(2), cy |-> Deg(2),
     eye |-> eye]

BakeFrames ==
    {BakeFrame(eye, f) : eye \in {Vec(0, 0, 2), Vec(0, 0, -2)},
                         f \in {Deg(1), Deg(2)}}

InitBake ==
    /\ pc = "bake_texture"
    /\ NoRun
    /\ NoStore
    /\ config = None
    /\ \E tri \in BakeTriangles, frame \in BakeFrames :
          args = [vertices |-> [i \in 1..3 |->
                                   <<tri[i][1], tri[i][2], Deg(0)>>],
                  faces |-> <<<<1, 2, 3>>>>,
                  uvs |-> [i \in 1..3 |-> tri[i]],
                  frames |-> <<frame>>,
                  texture_size |-> TextureSize]
    /\ ret = None

BakeTexture ==
    /\ pc = "bake_texture"
    /\ ret' = Some(bake_texture(args.vertices, args.faces, args.uvs,
                                args.frames, args.texture_size))
    /\ pc' = "texture_baked"
    /\ UNCHANGED <<run_state, args, table, jobs, job_events>>

NextBake == BakeTexture

SpecBake == InitBake /\ [][NextBake]_vars

\* the corner i of the face in texel coordinates <<x, y>>
CornerPx(i) ==
    <<RMul(args.uvs[i][1], Deg(args.texture_size - 1)),
      RMul(RSub(Deg(1), args.uvs[i][2]), Deg(args.texture_size - 1))>>

\* twice the signed area of the triangle p, q, r
Area2(p, q, r) ==
    RSub(RMul(RSub(q[1], p[1]), RSub(r[2], p[2])),
         RMul(RSub(r[1], p[1]), RSub(q[2], p[2])))

NonDegenerate == Area2(CornerPx(1), CornerPx(2), CornerPx(3)) # Deg(0)

\* the texel t = <<y, x>> is inside the face or on its border
InFootprint(t) ==
    LET p == <<Deg(t[2]), Deg(t[1])>>
        d1 == Area2(CornerPx(1), CornerPx(2), p)
        d2 == Area2(CornerPx(2), CornerPx(3), p)
        d3 == Area2(CornerPx(3), CornerPx(1), p)
    IN \/ RLe(Deg(0), d1) /\ RLe(Deg(0), d2) /\ RLe(Deg(0), d3)
       \/ RLe(d1, Deg(0)) /\ RLe(d2, Deg(0)) /\ RLe(d3, Deg(0))

\* where the camera sees the corner i, in pixels of the source image
Projected(i) ==
    LET view == args.frames[1]
        p == VAdd(MatVec(view.world_to_cam.rot, args.vertices[i]),
                  view.world_to_cam.trans)
    IN <<RAdd(RDiv(RMul(view.fx, p[1]), p[3]), view.cx),
         RAdd(RDiv(RMul(view.fy, p[2]), p[3]), view.cy)>>

\* every corner projects onto a pixel of the source image
InsideImage ==
    \A i \in 1..3 :
        /\ RLe(Deg(0), Projected(i)[1])
        /\ RLe(Projected(i)[1], Deg(args.frames[1].image.w - 1))
        /\ RLe(Deg(0), Projected(i)[2])
        /\ RLe(Projected(i)[2], Deg(args.frames[1].image.h - 1))

\* every corner projects at least one pixel before the right and bottom
\* borders of the source image
InsideSampler ==
    \A i \in 1..3 :
        /\ RLe(Deg(0), Projected(i)[1])
        /\ RLt(Projected(i)[1], Deg(args.frames[1].image.w - 1))
        /\ RLe(Deg(0), Projected(i)[2])
        /\ RLt(Projected(i)[2], Deg(args.frames[1].image.h - 1))

FootprintBaked ==
    \A t \in Texels(args.texture_size) :
        IF InFootprint(t) THEN Val(ret)[t].weights > 0
        ELSE Val(ret)[t].weights = 0 /\ Val(ret)[t].color = <<0, 0, 0>>

(***************************************************************************)
(* C17: for a single non-degenerate triangle with UV = XY and one camera   *)
(* looking straight at it, the whole triangle projecting inside the source *)
(* image, after _bake_texture every texel inside the triangle's UV         *)
(* footprint has weight > 0 and every texel outside it has weight 0 and    *)
(* stays black.                                                            *)
(***************************************************************************)
C17_FootprintBaked ==
    pc = "texture_baked" /\ NonDegenerate /\ InsideImage => FootprintBaked

(***************************************************************************)
(* C17, amended: the same when the triangle projects inside the part of    *)
(* the source image the bilinear sampler accepts, 0 <= u < width - 1 and   *)
(* 0 <= v < height - 1.                                                    *)
(***************************************************************************)
C17_FootprintBakedInsideSampler ==
    pc = "texture_baked" /\ NonDegenerate /\ InsideSampler => FootprintBaked

C17_Witness ==
    /\ pc = "texture_baked"
    /\ NonDegenerate
    /\ InsideSampler
    /\ \E t, o \in Texels(args.texture_size) :
          /\ InFootprint(t)
          /\ Val(ret)[t].weights = 1
          /\ Val(ret)[t].color # <<0, 0, 0>>
          /\ ~InFootprint(o)
          /\ Val(ret)[o].weights = 0

(***************************************************************************)
(* SpecPoints: the point-cloud export of run (lines 153-158) applied to    *)
(* every fused cloud of up to MaxPoints points                             *)
(***************************************************************************)
PointsConfigs ==
    [points_enabled : BOOLEAN,
     points_voxel_size : {0, 1},
     points_max_points : 0..(MaxPoints + 1)]

InitPoints ==
    /\ pc = "points"
    /\ NoRun
    /\ NoStore
    /\ config \in PointsConfigs
    /\ args \in {[pcd |-> [j \in 1..n |-> j]] : n \in 1..MaxPoints}
    /\ ret = None

SpecPoints == InitPoints /\ [][ExportPoints]_vars

(***************************************************************************)
(* C18: point_cloud_path is set and points.ply written if and only if      *)
(* points_enabled is true; when points_max_points > 0 the exported cloud   *)
(* has at most points_max_points points, distinct points of the fused      *)
(* cloud (re-voxelized when points_voxel_size > 0), and when               *)
(* points_max_points is 0 the cloud is not subsampled.                     *)
(***************************************************************************)
C18_PointCloudExport ==
    pc = "xatlas_bake" =>
        /\ outputs.point_cloud_path # "" <=> config.points_enabled
        /\ files.points <=> config.points_enabled
        /\ ~IsNone(ret) <=> config.points_enabled
        /\ config.points_enabled =>
              LET cloud == Val(ret).pcd
                  saved == Val(ret).saved
              IN /\ config.points_voxel_size = 0 => cloud = args.pcd
                 /\ config.points_max_points > 0 =>
                       /\ Len(saved) <= config.points_max_points
                       /\ NoDuplicates(saved)
                       /\ Range(saved) \subseteq Range(cloud)
                       /\ Len(saved) = Min(Len(cloud), config.points_max_points)
                 /\ config.points_max_points = 0 => saved = cloud

C18_Witness ==
    /\ pc = "xatlas_bake"
    /\ config.points_enabled
    /\ config.points_max_points = 2
    /\ Len(args.pcd) = 3
    /\ Val(ret).pcd = args.pcd
    /\ Len(Val(ret).saved) = 2
    /\ outputs.point_cloud_path = "points.ply"

(***************************************************************************)
(* The job stores: JobStoreDynamoDB over a table keyed by <<job_id, sort>> *)
(* and LocalJobStore over two dictionaries.  An item of the table is a     *)
(* record with job_id, sort and the attributes that were written; a job    *)
(* status is [state, stage, progress, error].  The timestamps and the      *)
(* bucket and key attributes are left out.  The result of a call is        *)
(* [raised, value], raised being "" when the call returned.                *)
(***************************************************************************)
Returned(v) == [raised |-> "", value |-> v]
Raised(e) == [raised |-> e, value |-> None]

\* item.get(name, default)
Get(item, name, default) ==
    IF name \in DOMAIN item THEN item[name] ELSE default

\* the items of the table with this key (at most one)
ItemsAt(tbl, job_id, sort) ==
    {it \in tbl : it.job_id = job_id /\ it.sort = sort}

\* Table.put_item without condition: the item replaces the one of its key
put_item(tbl, item) ==
    (tbl \ ItemsAt(tbl, item.job_id, item.sort)) \cup {item}

RECURSIVE Ascending(_)
\* the items of a set with different sort keys, in ascending sort order
Ascending(items) ==
    IF items = {} THEN <<>>
    ELSE LET first == CHOOSE it \in items :
                          \A other \in items : it.sort <= other.sort
         IN <<first>> \o Ascending(items \ {first})

\* the arguments of update_job that are not None, with their values
Passed(a) ==
    [f \in {g \in DOMAIN a : ~IsNone(a[g])} |-> Val(a[f])]

ddb_create_job(tbl, job_id) ==
    IF ItemsAt(tbl, job_id, 0) # {}
    THEN [table |-> tbl, result |-> Raised("ConditionalCheckFailedException")]
    ELSE [table |-> tbl \cup {[job_id |-> job_id, sort |-> 0,
                                item_type |-> "META", state |-> "QUEUED",
                                stage |-> "queued", progress |-> 0]},
          result |-> Returned(None)]

\* Table.update_item with a SET expression: the item is created when the
\* key has none
ddb_update_job(tbl, job_id, a) ==
    LET found == ItemsAt(tbl, job_id, 0)
        old == IF found = {} THEN [job_id |-> job_id, sort |-> 0]
               ELSE CHOOSE it \in found : TRUE
    IN [table |-> put_item(tbl, Passed(a) @@ old), result |-> Returned(None)]

ddb_put_event(tbl, job_id, sort, event) ==
    [table |-> put_item(tbl, [job_id |-> job_id, sort |-> sort,
                              item_type |-> "EVENT", event |-> event]),
     result |-> Returned(None)]

ddb_get_job(tbl, job_id) ==
    LET found == ItemsAt(tbl, job_id, 0)
        item == CHOOSE it \in found : TRUE
    IN IF found = {} THEN Raised("KeyError")
       ELSE Returned([state |-> Get(item, "state", "QUEUED"),
                      stage |-> Get(item, "stage", "unknown"),
                      progress |-> Get(item, "progress", 0),
                      error |-> IF "error" \in DOMAIN item
                                THEN Some(item.error) ELSE None])

\* Table.query with Limit: the first limit items of the key condition in
\* ascending order; the items that are not events are dropped afterwards
ddb_list_events(tbl, job_id, after_sort, limit) ==
    LET matching == Ascending({it \in tbl : /\ it.job_id = job_id
                                             /\ it.sort > after_sort})
        items == SubSeq(matching, 1, Min(limit, Len(matching)))
        events_only == SelectSeq(items,
                           LAMBDA it : Get(it, "item_type", "") = "EVENT")
    IN Returned([i \in 1..Len(events_only) |->
                    [sort |-> events_only[i].sort,
                     event |-> events_only[i].event]])

\* value or previous: a None or empty argument keeps the previous value
Or(value, previous) ==
    IF IsNone(value) \/ Val(value) = "" THEN previous ELSE Val(value)

local_create_job(js, evs, job_id) ==
    [jobs |-> (job_id :> [state |-> "QUEUED", stage |-> "queued",
                          progress |-> 0, error |-> None]) @@ js,
     job_events |-> (job_id :> <<>>) @@ evs,
     result |-> Returned(None)]

local_update_job(js, evs, job_id, a) ==
    IF job_id \notin DOMAIN js
    THEN [jobs |-> js, job_events |-> evs, result |-> Raised("KeyError")]
    ELSE LET status == js[job_id]
             replaced == [state |-> Or(a.state, status.state),
                          stage |-> Or(a.stage, status.stage),
                          progress |-> IF ~IsNone(a.progress)
                                       THEN Val(a.progress)
                                       ELSE status.progress,
                          error |-> IF ~IsNone(a.error) THEN a.error
                                    ELSE status.error]
         IN [jobs |-> (job_id :> replaced) @@ js, job_events |-> evs,
             result |-> Returned(None)]

local_put_event(js, evs, job_id, sort, event) ==
    LET old == IF job_id \in DOMAIN evs THEN evs[job_id] ELSE <<>>
    IN [jobs |-> js,
        job_events |-> (job_id :> Append(old, [sort |-> sort,
                                               event |-> event])) @@ evs,
        result |-> Returned(None)]

local_get_job(js, job_id) ==
    IF job_id \in DOMAIN js THEN Returned(js[job_id]) ELSE Raised("KeyError")

RECURSIVE sort_by_sort(_)
\* list.sort(key = sort): ascending, equal keys in their previous order
sort_by_sort(items) ==
    IF items = <<>> THEN <<>>
    ELSE LET i == CHOOSE k \in 1..Len(items) :
                      \A m \in 1..Len(items) :
                          \/ items[k].sort < items[m].sort
                          \/ items[k].sort = items[m].sort /\ k <= m
         IN <<items[i]>> \o
            sort_by_sort([m \in 1..(Len(items) - 1) |->
                            IF m < i THEN items[m] ELSE items[m + 1]])

local_list_events(evs, job_id, after_sort, limit) ==
    LET all == IF job_id \in DOMAIN evs THEN evs[job_id] ELSE <<>>
        items == sort_by_sort(SelectSeq(all,
                                  LAMBDA item : item.sort > after_sort))
    IN Returned(SubSeq(items, 1, Min(limit, Len(items))))

(***************************************************************************)
(* SpecStore: a store of one of the two kinds receives up to MaxCalls      *)
(* calls of create_job, update_job and put_event and then one query,       *)
(* get_job or list_events.  trace holds the calls with their results and,  *)
(* for update_job, the status get_job returned before the call; args and   *)
(* ret hold the query and its result.                                      *)
(***************************************************************************)
JobIds == {"j1", "j2"}
Sorts == 0..2
EventDicts == {[message |-> "a"], [message |-> "b"]}
UpdateArgs ==
    [state : {None, Some("RUNNING")},
     stage : {None, Some(""), Some("depth")},
     progress : {None, Some(50)},
     error : {None}]
AfterSorts == -1..1
Limits == 1..2

InitStore ==
    /\ pc = "store"
    /\ config \in [store : {"dynamodb", "local"}]
    /\ raiseCause = None
    /\ total = 0
    /\ depth_paths = <<>>
    /\ emit = "none"
    /\ emit_stage = "none"
    /\ texture_enabled = FALSE
    /\ texture_backend = "none"
    /\ xatlas = FALSE
    /\ blender_path = None
    /\ selected = <<>>
    /\ frames = <<>>
    /\ outputs = None
    /\ files = {}
    /\ events = <<>>
    /\ trace = <<>>
    /\ args = None
    /\ ret = None
    /\ table = {}
    /\ jobs = <<>>
    /\ job_events = <<>>

\* get_job of the store under test
get_job(job_id) ==
    IF config.store = "dynamodb" THEN ddb_get_job(table, job_id)
    ELSE local_get_job(jobs, job_id)

\* one mutating call: the store changes and the call joins the trace
Call(call, after) ==
    /\ pc = "store"
    /\ Len(trace) < MaxCalls
    /\ IF config.store = "dynamodb"
       THEN /\ table' = after.table
            /\ UNCHANGED <<jobs, job_events>>
       ELSE /\ jobs' = after.jobs
            /\ job_events' = after.job_events
            /\ UNCHANGED table
    /\ trace' = Append(trace, [call EXCEPT !.raised = after.result.raised])
    /\ UNCHANGED <<pc, raiseCause, inputs, locals, selected, frames,
                   outputs, files, events, args, ret>>

\* the arguments every trace entry has
CallOf(op, job_id) ==
    [op |-> op, job_id |-> job_id, raised |-> "", sort |-> 0,
     event |-> None, passed |-> None, before |-> None]

CreateJob ==
    \E job_id \in JobIds :
        Call(CallOf("create_job", job_id),
             IF config.store = "dynamodb" THEN ddb_create_job(table, job_id)
             ELSE local_create_job(jobs, job_events, job_id))

UpdateJob ==
    \E job_id \in JobIds, a \in UpdateArgs :
        Call([CallOf("update_job", job_id) EXCEPT
                  !.passed = Some(a), !.before = Some(get_job(job_id))],
             IF config.store = "dynamodb"
             THEN ddb_update_job(table, job_id, a)
             ELSE local_update_job(jobs, job_events, job_id, a))

PutEvent ==
    \E job_id \in JobIds, sort \in Sorts, event \in EventDicts :
        Call([CallOf("put_event", job_id) EXCEPT
                  !.sort = sort, !.event = Some(event)],
             IF config.store = "dynamodb"
             THEN ddb_put_event(table, job_id, sort, event)
             ELSE local_put_event(jobs, job_events, job_id, sort, event))

\* one query: the store stays, args and ret hold the call and its result
Query(call, result) ==
    /\ pc = "store"
    /\ pc' = "queried"
    /\ args' = call
    /\ ret' = result
    /\ UNCHANGED <<raiseCause, inputs, locals, selected, frames, outputs,
                   files, events, trace, table, jobs, job_events>>

GetJob ==
    \E job_id \in JobIds :
        Query([op |-> "get_job", job_id |-> job_id, after_sort |-> 0,
               limit |-> 0],
              get_job(job_id))

ListEvents ==
    \E job_id \in JobIds, after_sort \in AfterSorts, limit \in Limits :
        Query([op |-> "list_events", job_id |-> job_id,
               after_sort |-> after_sort, limit |-> limit],
              IF config.store = "dynamodb"
              THEN ddb_list_events(table, job_id, after_sort, limit)
              ELSE local_list_events(job_events, job_id, after_sort, limit))

NextStore == CreateJob \/ UpdateJob \/ PutEvent \/ GetJob \/ ListEvents

SpecStore == InitStore /\ [][NextStore]_vars

\* the put_event calls of a job, in the order they were made
PutEventCalls(job_id) ==
    SelectSeq(trace, LAMBDA c : c.op = "put_event" /\ c.job_id = job_id)

DistinctSorts(calls) ==
    \A i, k \in 1..Len(calls) : i # k => calls[i].sort # calls[k].sort

\* no create_job of the job follows one of its put_event calls
CreatedBeforeEvents(job_id) ==
    \A i, k \in 1..Len(trace) :
        /\ i < k
        /\ trace[i].op = "put_event"
        /\ trace[i].job_id = job_id
        => ~(trace[k].op = "create_job" /\ trace[k].job_id = job_id)

\* the events put for the job above after_sort, ascending, cut at limit
ExpectedEvents(job_id, after_sort, limit) ==
    LET calls == PutEventCalls(job_id)
        above == Ascending({[sort |-> calls[i].sort,
                             event |-> Val(calls[i].event)] :
                               i \in {k \in 1..Len(calls) :
                                         calls[k].sort > after_sort}})
    IN SubSeq(above, 1, Min(limit, Len(above)))

ListedEvents ==
    /\ pc = "queried"
    /\ args.op = "list_events"
    /\ DistinctSorts(PutEventCalls(args.job_id))
    /\ CreatedBeforeEvents(args.job_id)

\* C19: after put_event calls with distinct sort keys for a job,
\* list_events(job_id, after_sort) returns exactly the events of that job
\* whose sort is greater than after_sort, in ascending sort order, cut at
\* limit; the META item and the events of other jobs are never returned.
C19_ListEventsReturnsTheEvents ==
    ListedEvents =>
        /\ ret.raised = ""
        /\ ret.value = ExpectedEvents(args.job_id, args.after_sort, args.limit)

GotJob == pc = "queried" /\ args.op = "get_job"

\* the last call made on the store is this operation on the queried job,
\* and it returned
LastCall(op) ==
    /\ trace # <<>>
    /\ trace[Len(trace)].op = op
    /\ trace[Len(trace)].job_id = args.job_id
    /\ trace[Len(trace)].raised = ""

\* no create_job of the job has returned
Unknown(job_id) ==
    \A i \in 1..Len(trace) :
        ~(/\ trace[i].op = "create_job"
          /\ trace[i].job_id = job_id
          /\ trace[i].raised = "")

StatusFields == {"state", "stage", "progress"}

\* get_job right after update_job of a job that get_job found before:
\* passed fields have the new value, the others the previous one
UpdatedStatus ==
    LET call == trace[Len(trace)]
        a == Val(call.passed)
        before == Val(call.before)
    IN before.raised = "" =>
           /\ ret.raised = ""
           /\ \A f \in StatusFields :
                  ret.value[f] = IF IsNone(a[f]) THEN before.value[f]
                                 ELSE Val(a[f])
           /\ ret.value.error = IF IsNone(a.error) THEN before.value.error
                                 ELSE a.error

\* C20: get_job after create_job returns state QUEUED with progress 0.0;
\* after update_job, get_job returns the new value for every field that
\* was passed and the previous value for every field that was not passed;
\* get_job of an unknown job raises KeyError.
C20_GetJobRoundTrip ==
    GotJob =>
        /\ LastCall("create_job") =>
               /\ ret.raised = ""
               /\ ret.value.state = "QUEUED"
               /\ ret.value.progress = 0
        /\ LastCall("update_job") => UpdatedStatus
        /\ Unknown(args.job_id) => ret.raised = "KeyError"

(***************************************************************************)
(* split_grid of img2mesh3d/utils/images.py.  A pixel of the source image  *)
(* is named by its position <<x, y>>; a tile is the box it was cropped     *)
(* with, its size and, for each of its positions, the source pixel there.  *)
(***************************************************************************)
\* Python's a // b, ZeroDivisionError left to the caller
FloorDiv(a, b) == IF b > 0 THEN a \div b ELSE (-a) \div (-b)

\* Image.crop(box) of an image of size w x h: positions outside the image
\* are blank
crop(w, h, box) ==
    [box |-> box,
     size |-> <<box[3] - box[1], box[4] - box[2]>>,
     px |-> [q \in (0..(box[3] - box[1] - 1)) \X (0..(box[4] - box[2] - 1)) |->
                IF /\ box[1] + q[1] \in 0..(w - 1)
                   /\ box[2] + q[2] \in 0..(h - 1)
                THEN <<box[1] + q[1], box[2] + q[2]>>
                ELSE <<>>]]

\* split_grid with the loop over the columns outside the loop over the rows
split_grid_ColumnMajor(w, h, spec) ==
    IF spec.cols = 0 \/ spec.rows = 0 THEN Raised("ZeroDivisionError")
    ELSE LET tiles(tile_w, tile_h) ==
                 [k \in 1..(Max(spec.rows, 0) * Max(spec.cols, 0)) |->
                     LET tile(r, c) ==
                             crop(w, h, <<c * tile_w, r * tile_h,
                                          c * tile_w + tile_w,
                                          r * tile_h + tile_h>>)
                     IN tile((k - 1) % spec.rows, (k - 1) \div spec.rows)]
         IN Returned(tiles(FloorDiv(w, spec.cols), FloorDiv(h, spec.rows)))

split_grid(w, h, spec) ==
    IF spec.cols = 0 \/ spec.rows = 0 THEN Raised("ZeroDivisionError")
    ELSE LET tiles(tile_w, tile_h) ==
                 [k \in 1..(Max(spec.rows, 0) * Max(spec.cols, 0)) |->
                     LET tile(r, c) ==
                             crop(w, h, <<c * tile_w, r * tile_h,
                                          c * tile_w + tile_w,
                                          r * tile_h + tile_h>>)
                     IN tile((k - 1) \div spec.cols, (k - 1) % spec.cols)]
         IN Returned(tiles(FloorDiv(w, spec.cols), FloorDiv(h, spec.rows)))

(***************************************************************************)
(* SpecGrid: split_grid applied to every image size up to MaxImage and     *)
(* every GridSpec with rows and cols in -1..MaxGrid.                       *)
(***************************************************************************)
InitGrid ==
    /\ pc = "split_grid"
    /\ NoRun
    /\ NoStore
    /\ config = None
    /\ args \in [w : 0..MaxImage, h : 0..MaxImage,
                  spec : [rows : -1..MaxGrid, cols : -1..MaxGrid]]
    /\ ret = None

SplitGrid ==
    /\ pc = "split_grid"
    /\ ret' = split_grid(args.w, args.h, args.spec)
    /\ pc' = "split_grid_done"
    /\ UNCHANGED <<run_state, args, table, jobs, job_events>>

SpecGrid == InitGrid /\ [][SplitGrid]_vars

\* split_grid returned for a grid of at least one row and one column
GridSplit ==
    /\ pc = "split_grid_done"
    /\ args.spec.rows > 0
    /\ args.spec.cols > 0

\* the source pixels a tile shows
Shown(tile) == {tile.px[q] : q \in DOMAIN tile.px}

\* C21: split_grid on a w x h image with a rows x cols spec returns exactly
\* rows*cols tiles in row-major order, each of size (w // cols, h // rows),
\* tile (r, c) covering the box that starts at (c*(w//cols), r*(h//rows));
\* tiles never overlap.
C21_SplitGridTiles ==
    GridSplit =>
        /\ ret.raised = ""
        /\ Len(ret.value) = args.spec.rows * args.spec.cols
        /\ \A r \in 0..(args.spec.rows - 1), c \in 0..(args.spec.cols - 1) :
               LET tile == ret.value[r * args.spec.cols + c + 1]
                   tw == args.w \div args.spec.cols
                   th == args.h \div args.spec.rows
               IN /\ tile.size = <<tw, th>>
                  /\ Shown(tile) =
                         ((c * tw)..(c * tw + tw - 1))
                             \X ((r * th)..(r * th + th - 1))
        /\ \A i, k \in 1..Len(ret.value) :
               i # k => Shown(ret.value[i]) \cap Shown(ret.value[k]) = {}

C21_Witness ==
    /\ GridSplit
    /\ args.spec.rows = 2
    /\ args.spec.cols = 3
    /\ args.w = 4
    /\ args.h = 3
    /\ Len(ret.value) = 6
    /\ ret.value[5].box = <<1, 1, 2, 2>>

\* the pairs of list(zip(views_azimuths_deg, views_elevations_deg)) when
\* both lists are set
ConfiguredPairs ==
    Zip(Val(config.views_azimuths_deg), Val(config.views_elevations_deg))

OverridesCoverCount ==
    /\ ~IsNone(config.views_azimuths_deg)
    /\ ~IsNone(config.views_elevations_deg)
    /\ Len(ConfiguredPairs) >= args.count

\* C22: _default_angles(count) always returns exactly count (azimuth,
\* elevation) pairs: the first count configured pairs when both override
\* lists are set and their zip has at least count entries; otherwise, for
\* count # 6, the azimuths i*360/count for i in 0..count-1, all at
\* views_elev_deg.  So angles[idx] is defined for every idx < total.
C22_AnglesCoverEveryView ==
    pc = "default_angles_done" =>
        /\ Len(Val(ret)) = args.count
        /\ OverridesCoverCount =>
               \A i \in 1..args.count : Val(ret)[i] = ConfiguredPairs[i]
        /\ ~OverridesCoverCount /\ args.count # 6 =>
               \A i \in 1..args.count :
                   /\ Val(ret)[i][1][1] * args.count
                          = (i - 1) * 360 * Val(ret)[i][1][2]
                   /\ Val(ret)[i][2] = Deg(config.views_elev_deg)

C22_Witness ==
    /\ pc = "default_angles_done"
    /\ args.count = 4
    /\ OverridePairs = 3
    /\ Val(ret)[2] = <<Deg(90), Deg(config.views_elev_deg)>>
    /\ Len(Val(ret)) = 4

(***************************************************************************)
(* SpecRebuild: _select_views followed by _build_frames as rebuild_recon   *)
(* of api/app.py reaches them.  The endpoint copies the overrides of the   *)
(* request into the configuration with model_copy(update=...), which runs  *)
(* no validator: recon_view_indices is any list of integers.               *)
(***************************************************************************)
RebuildConfigs ==
    [texture_enabled : {TRUE},
     texture_backend : {"auto"},
     recon_fusion : {"points"},
     recon_method : {"poisson"},
     recon_target_tris : {2000},
     points_enabled : {TRUE},
     recon_view_indices :
         {None} \cup {Some(v) : v \in SeqsUpTo(-1..MaxTotal, MaxIdxLen)},
     recon_images : {None, Some(1), Some(2)}]

InitRebuild ==
    /\ pc = "select"
    /\ raiseCause = ""
    /\ config \in RebuildConfigs
    /\ total \in 0..MaxTotal
    /\ depth_paths \in SUBSET (0..(MaxTotal - 1))
    /\ emit = "none"
    /\ emit_stage = "rebuild"
    /\ texture_enabled = FALSE
    /\ texture_backend = ""
    /\ xatlas = FALSE
    /\ blender_path = FALSE
    /\ selected = <<>>
    /\ frames = <<>>
    /\ outputs = NoOutputs
    /\ files = NoFiles
    /\ events = <<>>
    /\ trace = <<>>
    /\ args = None
    /\ ret = None
    /\ table = {}
    /\ jobs = <<>>
    /\ job_events = <<>>

BuildSelected ==
    /\ pc = "selected"
    /\ frames' = build_frames(total, depth_paths, selected, depth_paths)
    /\ pc' = "frames_built"
    /\ UNCHANGED <<raiseCause, inputs, locals, selected, outputs, files,
                   events, trace, others>>

SpecRebuild == InitRebuild /\ [][SelectViews \/ BuildSelected]_vars

\* the configured indices below total, in configured order
ConfiguredBelowTotal ==
    SelectSeq(Val(config.recon_view_indices), LAMBDA i : i < total)

\* C23: every index returned by _select_views(total) lies in [0, total);
\* with explicit recon_view_indices of which at least one is below total
\* the result is the configured list restricted to the indices below total,
\* in configured order; for total <= 0 the result is empty.  Each frame
\* built from the selection carries the index of its source view and the
\* frames appear in selection order.
C23_SelectedIndicesInRange ==
    /\ pc \in {"selected", "frames_built"} =>
           /\ \A i \in 1..Len(selected) : selected[i] \in 0..(total - 1)
           /\ total <= 0 => selected = <<>>
           /\ (/\ total > 0
               /\ ~IsNone(config.recon_view_indices)
               /\ ConfiguredBelowTotal # <<>>)
                  => selected = ConfiguredBelowTotal
    /\ pc = "frames_built" =>
           [i \in 1..Len(frames) |-> frames[i].index]
               = SelectSeq(selected, LAMBDA idx : idx \in depth_paths)

\* ---------------------------------------------------------------------
\* _select_view_for_face on its own: SpecFace
\* ---------------------------------------------------------------------

MaxFaceViews == 2

FaceTriangles ==
    {Vec(1, 0, 0), Vec(0, 0, 0)}
        \X {Vec(0, 1, 0), Vec(1, 0, 0), Vec(3, 0, 0)}
        \X {Vec(-1, -1, 0), Vec(2, 0, 0), Vec(0, 3, 0), Vec(0, 0, 3)}

FaceEyes ==
    {Vec(0, 0, 2), Vec(0, 0, 4), Vec(0, 0, -2), Vec(2, 0, 0), Vec(0, 0, 0),
     Vec(1, 1, 2)}

InitFace ==
    /\ pc = "select_view_for_face"
    /\ NoRun
    /\ NoStore
    /\ config = None
    /\ \E tri \in FaceTriangles, n \in 1..MaxFaceViews :
          \E eyes \in [1..n -> FaceEyes] :
             args = [tri |-> tri,
                     views |-> [i \in 1..n |-> [index |-> i - 1,
                                                eye |-> eyes[i]]]]
    /\ ret = None

SelectViewForFace ==
    /\ pc = "select_view_for_face"
    /\ ret' = Some(select_view_for_face(args.tri, args.views))
    /\ pc' = "view_selected"
    /\ UNCHANGED <<run_state, args, table, jobs, job_events>>

SpecFace == InitFace /\ [][SelectViewForFace]_vars

\* the face's normal (not normalised) and its centroid
FaceNormal ==
    Cross(VSub(args.tri[2], args.tri[1]), VSub(args.tri[3], args.tri[1]))

FaceCentroid ==
    VScale(VAdd(VAdd(args.tri[1], args.tri[2]), args.tri[3]), Rat(1, 3))

\* the square of dot(unit normal, unit direction from the centroid to the
\* eye of view i); 0 for an eye at the centroid, which has no direction
FaceOn(i) ==
    LET cos2(dir) ==
            IF Dot(dir, dir) = Deg(0) THEN Deg(0)
            ELSE RDiv(RMul(Dot(FaceNormal, dir), Dot(FaceNormal, dir)),
                      RMul(Dot(FaceNormal, FaceNormal), Dot(dir, dir)))
    IN cos2(VSub(args.views[i].eye, FaceCentroid))

MostFaceOn ==
    {i \in 1..Len(args.views) :
        \A j \in 1..Len(args.views) : RLe(FaceOn(j), FaceOn(i))}

Earliest(S) == CHOOSE i \in S : \A j \in S : i <= j

FaceSkipped ==
    \/ FaceNormal = Vec(0, 0, 0)
    \/ \A i \in 1..Len(args.views) : FaceOn(i) = Deg(0)

\* C24: _select_view_for_face returns no view for a face whose normal is
\* zero and when every view scores 0, and otherwise the earliest of the
\* views that maximize |dot(unit normal, unit direction from the face's
\* centroid to the eye)|.
C24_MostFaceOnViewEarliestWins ==
    pc = "view_selected" =>
        ret = Some(IF FaceSkipped THEN None
                   ELSE Some(args.views[Earliest(MostFaceOn)]))

\* ---------------------------------------------------------------------
\* _sample_view_color on its own: SpecColour
\* ---------------------------------------------------------------------

\* points on the grid of halves, in front of, at and behind each camera
ColourPoints ==
    {<<Rat(x, 2), Rat(y, 2), Deg(z)>> : x \in -5..5, y \in -5..5, z \in -3..3}

InitColour ==
    /\ pc = "sample_view_color"
    /\ NoRun
    /\ NoStore
    /\ config = None
    /\ \E point \in ColourPoints, view \in BakeFrames :
          args = [point |-> point, view |-> view,
                  width |-> view.image.w, height |-> view.image.h]
    /\ ret = None

SampleViewColor ==
    /\ pc = "sample_view_color"
    /\ ret' = Some(sample_view_color(args.point, args.view,
                                     args.width, args.height))
    /\ pc' = "colour_sampled"
    /\ UNCHANGED <<run_state, args, table, jobs, job_events>>

SpecColour == InitColour /\ [][SampleViewColor]_vars

\* the point in the camera's coordinates
InCamera ==
    VAdd(MatVec(args.view.world_to_cam.rot, args.point),
         args.view.world_to_cam.trans)

\* the pixel a point in front of the camera projects to
ProjectedU ==
    RAdd(RDiv(RMul(args.view.fx, InCamera[1]), InCamera[3]), args.view.cx)

ProjectedV ==
    RAdd(RDiv(RMul(args.view.fy, InCamera[2]), InCamera[3]), args.view.cy)

\* the image positions <<row, column>> the bilinear sample reads
Taps ==
    {<<Floor(ProjectedV) + dy, Floor(ProjectedU) + dx>> :
        dx \in {0, 1}, dy \in {0, 1}}

ColourReturned == pc = "colour_sampled" /\ ret # Some(None)

\* C25: _sample_view_color returns a colour only for a point with positive
\* depth z whose pixel has 0 <= u < width - 1 and 0 <= v < height - 1, and
\* then the four positions the bilinear sample reads are inside the image.
C25_ColourOnlyInsideMargin ==
    ColourReturned =>
        /\ RLt(Deg(0), InCamera[3])
        /\ RLe(Deg(0), ProjectedU) /\ RLt(ProjectedU, Deg(args.width - 1))
        /\ RLe(Deg(0), ProjectedV) /\ RLt(ProjectedV, Deg(args.height - 1))
        /\ Taps \subseteq DOMAIN args.view.image.px
        /\ Taps \subseteq (0..(args.height - 1)) \X (0..(args.width - 1))

\* a colour sampled strictly between four pixels of the image
C25_Witness ==
    /\ ColourReturned
    /\ Floor(ProjectedU) = args.width - 2
    /\ Floor(ProjectedV) = 0
    /\ ProjectedU # Deg(Floor(ProjectedU))
    /\ ProjectedV # Deg(Floor(ProjectedV))

(***************************************************************************)
(* SpecWeights: the loop of _bake_texture face by face, over two faces of  *)
(* the unit square with UV = XY.  ret holds the accumulators tex and       *)
(* weights after the faces baked so far, trace the texels each face added  *)
(* a colour to, and at the end ret holds the image _bake_texture returns.  *)
(***************************************************************************)
SquareCorners == <<<<Deg(0), Deg(0)>>, <<Deg(1), Deg(0)>>,
                   <<Deg(0), Deg(1)>>, <<Deg(1), Deg(1)>>>>

SquareFaces ==
    {<<1, 2, 3>>, <<1, 2, 4>>, <<1, 4, 3>>, <<2, 4, 3>>, <<1, 2, 2>>}

InitWeights ==
    /\ pc = "bake_faces"
    /\ NoRun
    /\ NoStore
    /\ config = None
    /\ \E faces \in [1..2 -> SquareFaces], n \in 1..2 :
          \E views \in [1..n -> BakeFrames] :
             args = [vertices |-> [i \in 1..4 |->
                                      <<SquareCorners[i][1],
                                        SquareCorners[i][2], Deg(0)>>],
                     faces |-> faces,
                     uvs |-> SquareCorners,
                     frames |-> views,
                     texture_size |-> TextureSize]
    /\ ret = Some([st |-> [t \in Texels(TextureSize) |->
                              [tex |-> Black, weights |-> 0]],
                   image |-> None])

\* one pass of the loop over the faces (lines 661-666)
BakeFace ==
    /\ pc = "bake_faces"
    /\ Len(trace) < Len(args.faces)
    /\ LET step(st, baked) ==
               /\ ret' = Some([st |-> baked, image |-> None])
               /\ trace' = Append(trace,
                                  {t \in DOMAIN st : baked[t].tex # st[t].tex})
       IN step(Val(ret).st,
               bake_faces(args.vertices, <<args.faces[Len(trace) + 1]>>,
                          args.uvs, args.frames, Val(ret).st,
                          args.texture_size))
    /\ UNCHANGED <<pc, raiseCause, inputs, locals, selected, frames, outputs,
                   files, events, args, table, jobs, job_events>>

\* the image returned after the last face (lines 667-671)
FinishTexture ==
    /\ pc = "bake_faces"
    /\ Len(trace) = Len(args.faces)
    /\ ret' = Some([st |-> Val(ret).st,
                    image |-> Some(bake_texture(args.vertices, args.faces,
                                                args.uvs, args.frames,
                                                args.texture_size))])
    /\ pc' = "texture_baked"
    /\ UNCHANGED <<run_state, args, table, jobs, job_events>>

NextWeights == BakeFace \/ FinishTexture

SpecWeights == InitWeights /\ [][NextWeights]_vars

\* the corner i of the k-th face in texel coordinates <<x, y>>
FacePx(k, i) ==
    <<RMul(args.uvs[args.faces[k][i]][1], Deg(args.texture_size - 1)),
      RMul(RSub(Deg(1), args.uvs[args.faces[k][i]][2]),
           Deg(args.texture_size - 1))>>

\* the three barycentric weights of the texel t = <<y, x>> in the k-th
\* face are defined and not negative
InFace(k, t) ==
    LET inside(p, area) ==
            /\ area # Deg(0)
            /\ RLe(Deg(0), RDiv(Area2(FacePx(k, 1), FacePx(k, 2), p), area))
            /\ RLe(Deg(0), RDiv(Area2(FacePx(k, 2), FacePx(k, 3), p), area))
            /\ RLe(Deg(0), RDiv(Area2(FacePx(k, 3), FacePx(k, 1), p), area))
    IN inside(<<Deg(t[2]), Deg(t[1])>>,
              Area2(FacePx(k, 1), FacePx(k, 2), FacePx(k, 3)))

\* how many times a colour was added to the texel so far
TimesAdded(t) == Cardinality({k \in 1..Len(trace) : t \in trace[k]})

\* tex[t] / weights[t] as the 8-bit image stores it
Averaged(s) ==
    LET byte(q) == Floor(q)
        color(c) == <<byte(c[1]), byte(c[2]), byte(c[3])>>
    IN color(VScale(s.tex, Rat(1, s.weights)))

Baking == pc \in {"bake_faces", "texture_baked"} /\ args.texture_size > 0

\* C26: during _bake_texture the weight of a texel is the number of times a
\* colour was added to it, a colour is added only to texels of the texture
\* with all three barycentric weights >= 0 in the face, and in the image
\* returned a texel with weight > 0 holds its accumulated colour divided by
\* its weight, a texel with weight 0 is (0,0,0) and every channel is in
\* [0,255].
C26_WeightsCountColours ==
    Baking =>
        /\ \A t \in Texels(args.texture_size) :
              Val(ret).st[t].weights = TimesAdded(t)
        /\ \A k \in 1..Len(trace) : \A t \in trace[k] :
              t \in Texels(args.texture_size) /\ InFace(k, t)
        /\ pc = "texture_baked" =>
              \A t \in Texels(args.texture_size) :
                 LET s == Val(ret).st[t]
                     texel == Val(Val(ret).image)[t]
                 IN /\ texel.weights = s.weights
                    /\ s.weights > 0 => texel.color = Averaged(s)
                    /\ s.weights = 0 => texel.color = <<0, 0, 0>>
                    /\ \A c \in 1..3 : texel.color[c] \in 0..255

\* two faces added a colour to one texel, another texel of a face got no
\* colour, and a third is in no face
C26_Witness ==
    /\ pc = "texture_baked"
    /\ \E t, o, b \in Texels(args.texture_size) :
          /\ Val(ret).st[t].weights = 2
          /\ Val(Val(ret).image)[t].color # <<0, 0, 0>>
          /\ InFace(1, o) /\ o \notin trace[1]
          /\ ~InFace(1, b) /\ ~InFace(2, b)
          /\ Val(Val(ret).image)[b].weights = 0

(***************************************************************************)
(* SpecDecimate: the mesh from its extraction to the decimation, in        *)
(* LocalReconstructor.run and in the recon and decimate stages of the      *)
(* local runners.  A mesh is the number of its triangles and how many of   *)
(* them _cleanup_mesh removes (degenerate or duplicated triangles); trace  *)
(* holds the calls made on the mesh and ret the mesh.                      *)
(***************************************************************************)
MaxTris == 3

Meshes == {m \in [triangles : 0..MaxTris, removable : 0..MaxTris] :
              m.removable <= m.triangles}

\* _cleanup_mesh, and the same four calls in the local runners
cleanup_mesh(mesh) ==
    [triangles |-> mesh.triangles - mesh.removable, removable |-> 0]

\* Open3D's simplify_quadric_decimation: the meshes it can return; it
\* collapses edges while the mesh has more triangles than the target
simplify_quadric_decimation(mesh, target) ==
    IF mesh.triangles <= target THEN {mesh}
    ELSE {m \in Meshes : m.triangles <= Max(target, 0)}

MeshCall(name, mesh) == [call |-> name, triangles |-> mesh.triangles]

\* lines 142-147 of run: the calls made and the mesh after them
run_cleanup_and_decimate(mesh, target) ==
    LET decimate(cleaned) ==
            IF target > 0
            THEN {[mesh |-> m,
                   calls |-> <<MeshCall("cleanup_mesh", cleaned),
                               MeshCall("simplify_quadric_decimation", m)>>] :
                     m \in simplify_quadric_decimation(cleaned, target)}
            ELSE {[mesh |-> cleaned,
                   calls |-> <<MeshCall("cleanup_mesh", cleaned)>>]}
    IN decimate(cleanup_mesh(mesh))

\* the end of _run_recon_local followed by _run_decimate_local
run_decimate_local(mesh, target) ==
    LET decimate(cleaned) ==
            IF target > 0 /\ cleaned.triangles > target
            THEN {[mesh |-> cleanup_mesh(m),
                   calls |-> <<MeshCall("cleanup_mesh", cleaned),
                               MeshCall("simplify_quadric_decimation", m),
                               MeshCall("cleanup_mesh", cleanup_mesh(m))>>] :
                     m \in simplify_quadric_decimation(cleaned, target)}
            ELSE {[mesh |-> cleaned,
                   calls |-> <<MeshCall("cleanup_mesh", cleaned),
                               MeshCall("cleanup_mesh", cleaned)>>]}
    IN decimate(cleanup_mesh(mesh))

InitDecimate ==
    /\ pc = "fused"
    /\ NoRun
    /\ NoStore
    /\ config = None
    /\ args \in [runner : {"LocalReconstructor.run", "local_runners"},
                 recon_fusion : {"tsdf", "points"},
                 target_tris : 0..MaxTris]
    /\ args.runner = "local_runners" => args.recon_fusion = "points"
    /\ ret = None

\* volume.extract_triangle_mesh() or _mesh_from_points: any mesh
ExtractMesh ==
    /\ pc = "fused"
    /\ \E mesh \in Meshes :
          /\ ret' = Some(mesh)
          /\ trace' = <<MeshCall(IF args.recon_fusion = "tsdf"
                                 THEN "extract_triangle_mesh"
                                 ELSE "mesh_from_points", mesh)>>
    /\ pc' = "meshed"
    /\ UNCHANGED <<raiseCause, inputs, locals, selected, frames, outputs,
                   files, events, args, table, jobs, job_events>>

CleanupAndDecimate ==
    /\ pc = "meshed"
    /\ \E r \in IF args.runner = "local_runners"
                THEN run_decimate_local(Val(ret), args.target_tris)
                ELSE run_cleanup_and_decimate(Val(ret), args.target_tris) :
          /\ ret' = Some(r.mesh)
          /\ trace' = trace \o r.calls
    /\ pc' = "decimated"
    /\ UNCHANGED <<raiseCause, inputs, locals, selected, frames, outputs,
                   files, events, args, table, jobs, job_events>>

NextDecimate == ExtractMesh \/ CleanupAndDecimate

SpecDecimate == InitDecimate /\ [][NextDecimate]_vars

\* the positions in trace of the calls of one name
CallsOf(name) == {k \in 1..Len(trace) : trace[k].call = name}

\* the triangles of the mesh after its first cleanup
CleanedTriangles == trace[2].triangles

\* C27: quadric decimation is applied only when a positive target is
\* configured and the cleaned mesh has more triangles than the target, a
\* mesh at or under the target keeps its triangle count, and the cleanup
\* runs after the mesh extraction and before the decimation in both fusion
\* modes.
C27_DecimationOnlyAboveTarget ==
    pc = "decimated" =>
        /\ CallsOf("simplify_quadric_decimation") # {} =>
              args.target_tris > 0 /\ CleanedTriangles > args.target_tris
        /\ CleanedTriangles <= args.target_tris =>
              Val(ret).triangles = CleanedTriangles
        /\ trace[1].call \in {"extract_triangle_mesh", "mesh_from_points"}
        /\ trace[2].call = "cleanup_mesh"
        /\ \A k \in CallsOf("simplify_quadric_decimation") : k > 2

(***************************************************************************)
(* SpecMesh: the calls that turn the fused point cloud into a mesh, in     *)
(* LocalReconstructor._mesh_from_points and in _run_recon_local.  Each     *)
(* call is its name and its parameter; densities is the number of          *)
(* densities Poisson returns.                                              *)
(***************************************************************************)
RMax(a, b) == IF RLe(b, a) THEN a ELSE b

PointsCall(name, param) == [call |-> name, param |-> param]

\* _mesh_from_points (lines 494-512)
mesh_from_points(cfg, densities) ==
    IF cfg.recon_method = "alpha"
    THEN <<PointsCall("create_from_point_cloud_alpha_shape",
                      RMax(cfg.recon_alpha, Rat(1, 10000)))>>
    ELSE <<PointsCall("estimate_normals",
                      RMax(RMul(cfg.recon_voxel_size, Deg(2)), Rat(1, 100))),
           PointsCall("create_from_point_cloud_poisson",
                      Deg(cfg.recon_poisson_depth))>>
         \o (IF densities > 0
             THEN <<PointsCall("remove_vertices_by_mask", Rat(2, 100))>>
             ELSE <<>>)

\* int(round(max(6.0, min(12.0, math.log2(1.0 / voxel_size))))), 8 for a
\* voxel size that is not positive: d is the rounded logarithm when
\* 2^(2d-1) <= 1 / voxel_size^2 < 2^(2d+1)
poisson_depth_from_voxel(voxel_size) ==
    LET rounds(d, num2, den2) ==
            2 ^ (2 * d - 1) * num2 <= den2 /\ den2 < 2 ^ (2 * d + 1) * num2
        clamp(num2, den2) ==
            IF \E d \in 6..12 : rounds(d, num2, den2)
            THEN CHOOSE d \in 6..12 : rounds(d, num2, den2)
            ELSE IF den2 < 2 ^ 11 * num2 THEN 6 ELSE 12
    IN IF voxel_size[1] <= 0 THEN 8
       ELSE clamp(voxel_size[1] * voxel_size[1], voxel_size[2] * voxel_size[2])

\* the meshing of _run_recon_local (lines 407-427)
run_recon_local(method, voxel_size, densities) ==
    <<PointsCall("estimate_normals",
                 RMax(RMul(voxel_size, Rat(5, 2)), Rat(2, 100))),
      PointsCall("orient_normals_consistent_tangent_plane", Deg(10))>>
    \o (IF method \in {"alpha", "alpha-shape"}
        THEN <<PointsCall("create_from_point_cloud_alpha_shape",
                          RMax(RMul(voxel_size, Deg(8)), Rat(2, 100)))>>
        ELSE <<PointsCall("create_from_point_cloud_poisson",
                          Deg(poisson_depth_from_voxel(voxel_size)))>>
             \o (IF densities > 0
                 THEN <<PointsCall("select_by_index", Rat(2, 100))>>
                 ELSE <<>>)
             \o <<PointsCall("crop", None)>>)

MeshConfigs ==
    [recon_method : {"poisson", "alpha"},
     recon_alpha : {Deg(0), Rat(1, 20000), Rat(2, 100)},
     recon_voxel_size : {Deg(0), Rat(6, 1000), Rat(1, 100)},
     recon_poisson_depth : {4, 8, 12}]

InitMesh ==
    /\ pc = "mesh_from_points"
    /\ NoRun
    /\ NoStore
    /\ config \in MeshConfigs
    /\ args \in [runner : {"LocalReconstructor", "local_runners"},
                 densities : {0, 3}]
    /\ ret = None

MeshPoints ==
    /\ pc = "mesh_from_points"
    /\ ret' = Some(IF args.runner = "local_runners"
                   THEN run_recon_local(config.recon_method,
                                        config.recon_voxel_size,
                                        args.densities)
                   ELSE mesh_from_points(config, args.densities))
    /\ pc' = "points_meshed"
    /\ UNCHANGED <<run_state, config, args, table, jobs, job_events>>

SpecMesh == InitMesh /\ [][MeshPoints]_vars

\* the names of the calls made, in order
CallNames == [k \in 1..Len(Val(ret)) |-> Val(ret)[k].call]

\* the calls of the Poisson path, the removal of the low-density vertices
\* left out when Poisson returned no densities
PoissonCalls ==
    <<"estimate_normals", "orient_normals_consistent_tangent_plane",
      "create_from_point_cloud_poisson">>
    \o (IF args.densities > 0 THEN <<"remove_vertices_by_mask">> ELSE <<>>)

\* C28: with recon_method = poisson the points are meshed by estimating the
\* normals, orienting them consistently, Poisson reconstruction at
\* recon_poisson_depth and the removal of the vertices below the 2% density
\* quantile, in this order; with recon_method = alpha none of these calls
\* is made and the alpha shape is extracted with alpha >= 1e-4.
C28_PoissonStepsInOrder ==
    (pc = "points_meshed" /\ args.runner = "LocalReconstructor") =>
        /\ config.recon_method = "poisson" =>
              /\ CallNames = PoissonCalls
              /\ Val(ret)[3].param = Deg(config.recon_poisson_depth)
              /\ args.densities > 0 => Val(ret)[4].param = Rat(2, 100)
        /\ config.recon_method = "alpha" =>
              /\ CallNames = <<"create_from_point_cloud_alpha_shape">>
              /\ RLe(Rat(1, 10000), Val(ret)[1].param)

(***************************************************************************)
(* The gates of the two texture bakes of run                               *)
(***************************************************************************)
\* the backend run works with: (self.config.texture_backend or "auto").lower()
ConfiguredBackend == lower_backend(config.texture_backend)

\* how many times a step is in trace
Times(step) == Cardinality({i \in 1..Len(trace) : trace[i] = step})

\* every temporary directory made so far was removed, before the bake that
\* made it reported its success
TempDirsRemoved ==
    /\ Times("mkdtemp") = Times("rmtree")
    /\ \A i \in 1..Len(trace) :
          trace[i] = "mkdtemp" =>
              \E j \in (i + 1)..Len(trace) :
                  /\ trace[j] = "rmtree"
                  /\ \A k \in (i + 1)..(j - 1) : trace[k] \in BlenderFailures

\* C30: the xatlas bake is attempted only with texturing enabled, a backend
\* in {auto, pyxatlas} and xatlas imported; Blender is invoked only with
\* texturing enabled, a backend in {auto, blender}, a resolved Blender path
\* and no mesh produced yet.  With backend pyxatlas Blender is never
\* invoked, with backend blender xatlas is never invoked, with backend none
\* or texturing disabled neither is invoked and run returns the untextured
\* export without a texture path; at most one of the two bakes succeeds,
\* and the temporary directory of a Blender bake is removed whether the
\* bake succeeds or fails.
C30_BakesAreGated ==
    /\ InTrace("xatlas_bake") =>
          /\ config.texture_enabled
          /\ ConfiguredBackend \in {"auto", "pyxatlas"}
          /\ xatlas
    /\ InTrace("blender_bake") =>
          /\ config.texture_enabled
          /\ ConfiguredBackend \in {"auto", "blender"}
          /\ blender_path
          /\ ~InTrace("xatlas_baked")
    /\ ConfiguredBackend = "pyxatlas" => ~InTrace("blender_bake")
    /\ ConfiguredBackend = "blender" => ~InTrace("xatlas_bake")
    /\ (ConfiguredBackend = "none" \/ ~config.texture_enabled) =>
          /\ ~InTrace("xatlas_bake")
          /\ ~InTrace("blender_bake")
          /\ pc = "returned" =>
                /\ InTrace("export_untextured")
                /\ files.glb = "untextured"
                /\ outputs.mesh_path = "model.glb"
                /\ outputs.texture_path = ""
    /\ ~(InTrace("xatlas_baked") /\ InTrace("blender_baked"))
    /\ TempDirsRemoved

\* a run that returned the Blender bake after xatlas could not be imported
C30_Witness ==
    /\ pc = "returned"
    /\ ConfiguredBackend = "auto"
    /\ ~xatlas
    /\ InTrace("blender_baked")
    /\ InTrace("rmtree")
    /\ outputs.texture_path = "albedo.png"

(***************************************************************************)
(* SpecRerun: run called a second time on the same reconstructor.  args    *)
(* keeps the configuration given to __init__ and, once the first call is   *)
(* over, how it ended: its local variables, the first bake it attempted    *)
(* and whether it returned.                                                *)
(***************************************************************************)
RerunConfigs ==
    {c \in RunConfigs : /\ c.recon_fusion = "points"
                        /\ c.recon_target_tris = 0
                        /\ ~c.points_enabled
                        /\ c.recon_view_indices = None
                        /\ c.recon_images = None}

InitRerun ==
    /\ pc = "start"
    /\ raiseCause = ""
    /\ config \in RerunConfigs
    /\ total = 1
    /\ depth_paths = {0}
    /\ emit = "none"
    /\ emit_stage = "rebuild"
    /\ texture_enabled = FALSE
    /\ texture_backend = ""
    /\ xatlas = FALSE
    /\ blender_path = FALSE
    /\ selected = <<>>
    /\ frames = <<>>
    /\ outputs = NoOutputs
    /\ files = NoFiles
    /\ events = <<>>
    /\ trace = <<>>
    /\ args = [pcd |-> <<1>>, config |-> config, first |-> None]
    /\ ret = None
    /\ NoStore

\* the first of the two bakes that a run attempted, "none" without a bake
FirstBake(steps) ==
    LET bakes == SelectSeq(steps,
                           LAMBDA s : s \in {"xatlas_bake", "blender_bake"})
    IN IF bakes = <<>> THEN "none" ELSE Head(bakes)

\* what is remembered of a call of run that is over
Finished ==
    [texture_enabled |-> texture_enabled,
     texture_backend |-> texture_backend,
     xatlas |-> xatlas,
     blender_path |-> blender_path,
     bake |-> FirstBake(trace),
     returned |-> pc = "returned"]

\* a second call of run that finds the fallback flags of the first call in
\* the configuration
RunAgain_KeepsFallback ==
    /\ pc \in {"returned", "raised"}
    /\ args.first = None
    /\ args' = [args EXCEPT !.first = Some(Finished)]
    /\ pc' = "start"
    /\ raiseCause' = ""
    /\ config' = IF texture_backend = "" THEN config
                 ELSE [config EXCEPT !.texture_enabled = texture_enabled,
                                     !.texture_backend = texture_backend]
    /\ texture_enabled' = FALSE
    /\ texture_backend' = ""
    /\ xatlas' = FALSE
    /\ blender_path' = FALSE
    /\ selected' = <<>>
    /\ frames' = <<>>
    /\ outputs' = NoOutputs
    /\ events' = <<>>
    /\ trace' = <<>>
    /\ UNCHANGED <<total, depth_paths, emit, emit_stage, files, ret, table,
                   jobs, job_events>>

\* a second call of run: new local variables and outputs, the same
\* self.config, the files of the first call still in out_dir
RunAgain ==
    /\ pc \in {"returned", "raised"}
    /\ args.first = None
    /\ args' = [args EXCEPT !.first = Some(Finished)]
    /\ pc' = "start"
    /\ raiseCause' = ""
    /\ texture_enabled' = FALSE
    /\ texture_backend' = ""
    /\ xatlas' = FALSE
    /\ blender_path' = FALSE
    /\ selected' = <<>>
    /\ frames' = <<>>
    /\ outputs' = NoOutputs
    /\ events' = <<>>
    /\ trace' = <<>>
    /\ UNCHANGED <<inputs, files, ret, table, jobs, job_events>>

NextRerun == Next \/ RunAgain

SpecRerun == InitRerun /\ [][NextRerun]_vars

\* the second call returned in the environment of the first, which
\* returned as well: xatlas imported or not, Blender resolved or not
ReturnedTwiceAlike ==
    /\ args.first # None
    /\ pc = "returned"
    /\ Val(args.first).returned
    /\ Val(args.first).xatlas = xatlas
    /\ Val(args.first).blender_path = blender_path

\* C29: run never changes a field of self.config, the configuration during
\* and after a run, returned or raised, is the one given to the
\* reconstructor, and a second run on the same reconstructor makes the same
\* backend choice as the first.
C29_ConfigUntouchedByRun ==
    /\ config = args.config
    /\ ReturnedTwiceAlike => FirstBake(trace) = Val(args.first).bake

\* the first run fell back after a failed xatlas bake, the second run baked
\* with xatlas
C29_Witness ==
    /\ ReturnedTwiceAlike
    /\ config.texture_enabled
    /\ ~Val(args.first).texture_enabled
    /\ Val(args.first).texture_backend = "blender"
    /\ ConfiguredBackend = "auto"
    /\ InTrace("xatlas_baked")

====
